---- MODULE Spec2Model ----
(***************************************************************************)
(* A model of casino/roulette.py: the Wheel and its Bins as BinBuilder     *)
(* fills them, the Table and its Bets, the Player strategies and one round *)
(* of Game.cycle.                                                          *)
(*                                                                         *)
(* An Outcome is the record [name, odds]; Python compares and hashes       *)
(* Outcomes by name alone, so membership in a Bin or in the catalog is     *)
(* written with SameName.  A Bet is the record [amount_bet, outcome];      *)
(* Python compares Bets by repr (amount, name and odds) and hashes them by *)
(* (amount, name): two Bets are the same element of a set exactly when     *)
(* the records are equal.                                                  *)
(***************************************************************************)
EXTENDS Integers, Sequences, FiniteSets, TLC

VARIABLES
    bins,          \* Wheel.bins: bin index 0..37 -> set of Outcomes
    all_outcomes,  \* Wheel.all_outcomes
    bets,          \* Table.bets
    player,        \* the Player object: its class and its attributes
    call,          \* the operation called last
    ret,           \* what that call returned
    raised,        \* the exception that call let out, "" when it returned
    message,       \* what that exception carries: <<total, count>> for InvalidBet
    before,        \* the Player object as it was when that call began
    trace,         \* the calls Game.cycle made during that call, in order;
                   \* for a hook called on the player directly, that call
    cycles,        \* the number of calls made so far that the bounds count:
                   \* Game.cycle calls, or calls of hooks made directly that
                   \* changed the player or the table
    forced,        \* <<r>> once playing() has overwritten rounds_to_go = r
                   \* with 0 and set_rounds has not been called since
    table,         \* Table.minimum and Table.limit
    streak,        \* the run of wins or of losses the player was told of
                   \* last, since invalid_bet or set_rounds was last called,
                   \* and the player as the run found it
    reds,          \* how many Game.cycle rounds in a row, right before the
                   \* last one and counted up to 7, announced a Bin with Red
    session        \* Simulator.session: how many were begun, whether the
                   \* last is in its loop, and its stake_history

vars == <<bins, all_outcomes, bets, player, call, ret, raised, message, before,
          trace, cycles, forced, table, streak, reds, session>>

\* ------------------------------------------------------------ bounds

\* Rounds given to a player with set_rounds before play begins.
MaxRounds == 5

\* Game.cycle is called at most this many times more than the player was
\* given rounds.
MaxSitOut == 2

\* Bets placed on a table before it is cleared.
MaxBets == 3

\* ------------------------------------------------------------ RouletteOdds

straightbet == 35
splitbet == 17
streetbet == 11
cornerbet == 8
linebet == 5
dozenbet == 2
columnbet == 2
evenmoneybet == 1
fivebet == 6

\* ------------------------------------------------------------ Outcome

Outcome(name, odds) == [name |-> name, odds |-> odds]

\* Outcome.__eq__ between two Outcomes, Outcome.__hash__: the name alone.
SameName(a, b) == a.name = b.name

\* `outcome in collection` for a set of Outcomes.
Contains(collection, outcome) == \E o \in collection : SameName(o, outcome)

\* `name in collection` for a plain string: Outcome.__eq__ with a str.
ContainsName(collection, name) == \E o \in collection : o.name = name

\* Outcome.__hash__: the hash of the name, written as the name hashed.
Outcome_hash(outcome) == outcome.name

\* Outcome.__repr__: "Outcome('red', 2)", written as the fields it formats.
Outcome_repr(outcome) == <<"Outcome", outcome.name, outcome.odds>>

\* Outcome.win_amount, had it returned the stake with the winnings as
\* TestOutcome.test_win_amount's docstring words it.  WinAmountIsAmountTimesOdds
\* must tell the two apart.
Outcome_win_amount_total(outcome, amount) == amount * outcome.odds + amount

\* Outcome.win_amount; the assertion is the caller's guard (WinAmountFails).
Outcome_win_amount(outcome, amount) == amount * outcome.odds

WinAmountFails(amount) == ~(amount >= 0)

\* ------------------------------------------------------------ Wheel

NumBins == 38

BinIndex == 0..(NumBins - 1)

\* Wheel.__init__ before BinBuilder runs.
EmptyWheel == [bins |-> [i \in BinIndex |-> {}], all_outcomes |-> {}]

\* The first assertion of Wheel.add, had it refused bin 0.  AddOutOfRangeFails
\* must tell the two apart.
ValidBin_positive(bin_) == 0 < bin_ /\ bin_ < NumBins

\* The first assertion of Wheel.add.
ValidBin(bin_) == 0 <= bin_ /\ bin_ < NumBins

\* Wheel.add, had it made the Bin of the new Outcome alone.  WheelInvariant
\* must tell the two apart.
Wheel_add_alone(w, bin_, outcome) ==
    [bins |-> [w.bins EXCEPT ![bin_] = {outcome}],
     all_outcomes |-> IF ~Contains(w.all_outcomes, outcome)
                      THEN w.all_outcomes \cup {outcome}
                      ELSE w.all_outcomes]

\* Wheel.add on a valid bin: Bin(the_bin) is a frozenset, so an Outcome whose
\* name the bin already holds leaves the bin as it was.
Wheel_add(w, bin_, outcome) ==
    [bins |-> [w.bins EXCEPT ![bin_] =
                  IF Contains(w.bins[bin_], outcome)
                  THEN w.bins[bin_]
                  ELSE w.bins[bin_] \cup {outcome}],
     all_outcomes |-> IF ~Contains(w.all_outcomes, outcome)
                      THEN w.all_outcomes \cup {outcome}
                      ELSE w.all_outcomes]

\* A run of wheel.add calls, each <<bin, outcome>>, made in order: call i
\* changes a bin or the catalog only if no Outcome of that name is there yet,
\* neither from before the run nor from an earlier call of the run.
AddAll(w, calls) ==
    LET first(i, held, same(_)) ==
            /\ ~Contains(held, calls[i][2])
            /\ ~\E j \in 1..(i - 1) :
                    same(j) /\ SameName(calls[j][2], calls[i][2])
        added(held, same(_)) ==
            {calls[i][2] : i \in
                {k \in DOMAIN calls : same(k) /\ first(k, held, same)}}
    IN  [bins |-> [b \in BinIndex |->
                    LET held == w.bins[b]
                    IN  held \cup added(held, LAMBDA k : calls[k][1] = b)],
         all_outcomes |->
            LET held == w.all_outcomes
            IN  held \cup added(held, LAMBDA k : TRUE)]

RECURSIVE Flatten(_)
Flatten(ss) == IF ss = <<>> THEN <<>> ELSE Head(ss) \o Flatten(Tail(ss))

\* range(a, b, step) as a set, step > 0.
Range(a, b, step) == {n \in a..(b - 1) : (n - a) % step = 0}

\* ------------------------------------------------------------ BinBuilder

\* BinBuilder.straight, had it left out the bin of the double zero.
\* CatalogOf153 must tell the two apart.
straight_calls_single_zero ==
    [k \in 1..37 |->
        <<k - 1, Outcome("Straight " \o ToString(k - 1), straightbet)>>]

\* The wheel.add calls of each method, in the order it makes them.
straight_calls ==
    [k \in 1..37 |->
        <<k - 1, Outcome("Straight " \o ToString(k - 1), straightbet)>>]
    \o << <<37, Outcome("Straight 00", straightbet)>> >>

straight(w) == AddAll(w, straight_calls)

\* BinBuilder.five, had it covered 0, 1, 2 and 3 alone.  ZeroBinsHoldTwo must
\* tell the two apart.
five_calls_four ==
    LET outcome == Outcome("00-0-1-2-3", fivebet)
    IN  [k \in 1..4 |-> <<k - 1, outcome>>]

five_calls ==
    LET outcome == Outcome("00-0-1-2-3", fivebet)
    IN  << <<37, outcome>> >> \o [k \in 1..4 |-> <<k - 1, outcome>>]

five(w) == AddAll(w, five_calls)

SplitName(a, b) == ToString(a) \o ", " \o ToString(b) \o " Split"

split_bets_calls ==
    LET rows == [r \in 1..12 |->
            LET row == r - 1
                col1 == 3 * row + 1
                col2 == 3 * row + 2
                outcome1 == Outcome(SplitName(col1, col1 + 1), splitbet)
                outcome2 == Outcome(SplitName(col2, col2 + 1), splitbet)
            IN  << <<col1, outcome1>>, <<col1 + 1, outcome1>>,
                   <<col2, outcome2>>, <<col2 + 1, outcome2>> >>]
        nums == [num \in 1..33 |->
            LET outcome == Outcome(SplitName(num, num + 3), splitbet)
            IN  << <<num, outcome>>, <<num + 3, outcome>> >>]
    IN  Flatten(rows) \o Flatten(nums)

split_bets(w) == AddAll(w, split_bets_calls)

street_bets_calls ==
    LET rows == [r \in 1..12 |->
            LET num == 3 * (r - 1) + 1
                outcome == Outcome(ToString(num) \o ", " \o ToString(num + 1)
                                   \o ", " \o ToString(num + 2) \o " Street",
                                   streetbet)
            IN  << <<num, outcome>>, <<num + 1, outcome>>,
                   <<num + 2, outcome>> >>]
    IN  Flatten(rows)

street_bets(w) == AddAll(w, street_bets_calls)

CornerName(c) ==
    ToString(c) \o ", " \o ToString(c + 1) \o ", " \o ToString(c + 3)
    \o ", " \o ToString(c + 4) \o " Corner"

corner_bets_calls ==
    LET corner == <<0, 1, 3, 4>>
        rows == [r \in 1..11 |->
            LET col1 == 3 * (r - 1) + 1
                col2 == 3 * (r - 1) + 2
                outcome1 == Outcome(CornerName(col1), cornerbet)
                outcome2 == Outcome(CornerName(col2), cornerbet)
            IN  Flatten([k \in 1..4 |->
                    << <<col1 + corner[k], outcome1>>,
                       <<col2 + corner[k], outcome2>> >>])]
    IN  Flatten(rows)

corner_bets(w) == AddAll(w, corner_bets_calls)

LineName(n) ==
    ToString(n) \o ", " \o ToString(n + 1) \o ", " \o ToString(n + 2)
    \o ", " \o ToString(n + 3) \o ", " \o ToString(n + 4)
    \o ", " \o ToString(n + 5) \o " Line"

\* BinBuilder.line_bets, had a line ended at its fifth number.
\* EveryOutcomeInItsBins must tell the two apart.
line_bets_calls_five ==
    LET rows == [r \in 1..11 |->
            LET num == 3 * (r - 1) + 1
                outcome == Outcome(LineName(num), linebet)
            IN  [j \in 1..5 |-> <<num + (j - 1), outcome>>]]
    IN  Flatten(rows)

line_bets_calls ==
    LET rows == [r \in 1..11 |->
            LET num == 3 * (r - 1) + 1
                outcome == Outcome(LineName(num), linebet)
            IN  [j \in 1..6 |-> <<num + (j - 1), outcome>>]]
    IN  Flatten(rows)

line_bets(w) == AddAll(w, line_bets_calls)

dozen_bets_calls ==
    LET dozens == [d \in 1..3 |->
            LET dozen == d - 1
                outcome == Outcome("Dozen " \o ToString(dozen + 1), dozenbet)
            IN  [s \in 1..12 |-> <<dozen * 12 + (s - 1) + 1, outcome>>]]
    IN  Flatten(dozens)

dozen_bets(w) == AddAll(w, dozen_bets_calls)

column_bets_calls ==
    LET cols == [c \in 1..3 |->
            LET col == c - 1
                outcome == Outcome("Column " \o ToString(col + 1), columnbet)
            IN  [r \in 1..12 |-> <<(r - 1) * 3 + col + 1, outcome>>]]
    IN  Flatten(cols)

column_bets(w) == AddAll(w, column_bets_calls)

\* The red numbers, had the second range begun at 11.  EvenMoneyPerBin must
\* tell the two apart.
red_from_eleven == Range(1, 10, 2) \cup Range(11, 19, 2)
                   \cup Range(19, 28, 2) \cup Range(30, 37, 2)

red == Range(1, 10, 2) \cup Range(12, 19, 2)
       \cup Range(19, 28, 2) \cup Range(30, 37, 2)

even_money_bets_calls ==
    LET If(cond, name, n) ==
            IF cond THEN << <<n, Outcome(name, evenmoneybet)>> >> ELSE <<>>
        numbers == [n \in 1..36 |->
               If(1 <= n /\ n < 19, "Low", n)
            \o If(19 <= n /\ n < 37, "High", n)
            \o If(n % 2 = 0, "Even", n)
            \o If(n % 2 # 0, "Odd", n)
            \o If(n \in red, "Red", n)
            \o If(n \notin red, "Black", n)]
    IN  Flatten(numbers)

even_money_bets(w) == AddAll(w, even_money_bets_calls)

build_bins(w) ==
    even_money_bets(column_bets(dozen_bets(line_bets(corner_bets(
        street_bets(split_bets(five(straight(w)))))))))

\* Wheel.__init__: 38 empty bins, an empty catalog, then BinBuilder.
BuiltWheel == build_bins(EmptyWheel)

\* Wheel.get: tuple indexing, so a negative index counts from the end and
\* an index outside [-38, 38) raises IndexError.
Wheel_get(bins_, bin_) ==
    IF 0 <= bin_ /\ bin_ < NumBins THEN bins_[bin_]
    ELSE bins_[bin_ + NumBins]

GetFails(bin_) == ~(-NumBins <= bin_ /\ bin_ < NumBins)

\* str.casefold on the ASCII text of Outcome names: upper case to lower case.
Upper == <<"A", "B", "C", "D", "E", "F", "G", "H", "I", "J", "K", "L", "M",
           "N", "O", "P", "Q", "R", "S", "T", "U", "V", "W", "X", "Y", "Z">>

Lower == <<"a", "b", "c", "d", "e", "f", "g", "h", "i", "j", "k", "l", "m",
           "n", "o", "p", "q", "r", "s", "t", "u", "v", "w", "x", "y", "z">>

FoldChar(c) ==
    IF \E k \in 1..26 : Upper[k] = c
    THEN Lower[CHOOSE k \in 1..26 : Upper[k] = c]
    ELSE c

RECURSIVE FoldString(_)
FoldString(s) ==
    IF Len(s) = 0 THEN ""
    ELSE FoldChar(SubSeq(s, 1, 1)) \o FoldString(SubSeq(s, 2, Len(s)))

\* str.casefold, had it left the text as it is: a lookup by the exact name.
\* GetOutcomeAnyCase must tell the two apart.
casefold_none(s) == s

\* str.casefold
casefold(s) == FoldString(s)

\* The list Wheel.get_outcome builds: the Outcomes whose name matches.
\* Folding this text keeps its length, so a name of another length is passed
\* over before it is folded.
Matches(catalog, name) ==
    {oc \in catalog :
        Len(oc.name) = Len(name) /\ casefold(name) = casefold(oc.name)}

\* `outcome, = [...]` raises ValueError unless exactly one Outcome matches.
GetOutcomeFails(catalog, name) == Cardinality(Matches(catalog, name)) # 1

Wheel_get_outcome(catalog, name) == CHOOSE oc \in Matches(catalog, name) : TRUE

\* ------------------------------------------------------------ Bet

Bet(amount, outcome) == [amount_bet |-> amount, outcome |-> outcome]

Bet_win_amount(bet) ==
    Outcome_win_amount(bet.outcome, bet.amount_bet) + bet.amount_bet

\* Bet.__repr__: "Bet(15, Outcome('Straight 1', 35))".
Bet_repr(bet) == <<"Bet", bet.amount_bet, Outcome_repr(bet.outcome)>>

\* Bet.__eq__ between two Bets: their reprs compared.
Bet_eq(bet, other) == Bet_repr(bet) = Bet_repr(other)

\* Bet.__hash__: the hash of (amount_bet, outcome), written as the pair hashed.
Bet_hash(bet) == <<bet.amount_bet, Outcome_hash(bet.outcome)>>

Bet_loose_amount(bet) == bet.amount_bet

\* ------------------------------------------------------------ Table

\* Simulator.__init__: a session begins with init_stake times the table minimum.
init_stake == 100

\* Game.__init__ and Simulator.create_game: RouletteTable(10, 100, wheel).
minimum == 10
limit == 100

\* Table.__init__: the attributes other than bets.
Table_init(minimum_, limit_) == [minimum |-> minimum_, limit |-> limit_]

\* Table.table
Table_table == {}

\* Table.place_bet, had it taken a Bet that is already on the table off it.
\* PlaceBetIsSetAdd must tell the two apart.
Table_place_bet_toggle(bets_, bet) ==
    IF bet \in bets_ THEN bets_ \ {bet} ELSE bets_ \cup {bet}

\* Table.place_bet: set.add, with no check of the amount.
Table_place_bet(bets_, bet) == bets_ \cup {bet}

RECURSIVE SumAmounts(_)
SumAmounts(bets_) ==
    IF bets_ = {} THEN 0
    ELSE LET bet == CHOOSE b \in bets_ : TRUE
         IN  bet.amount_bet + SumAmounts(bets_ \ {bet})

\* Table.is_valid, had it accepted every total.  ResolvedWithinLimit must tell
\* the two apart.
Table_is_valid_never(bets_) ==
    [raised |-> "", ret |-> TRUE, total |-> 0, count |-> 0]

\* Table.is_valid, had it compared with `<`: a total equal to the limit is
\* refused.  TableIsValid must tell the two apart.
Table_is_valid_strict(bets_) ==
    IF ~(SumAmounts(bets_) < limit)
    THEN [raised |-> "InvalidBet", ret |-> FALSE,
          total |-> SumAmounts(bets_), count |-> Cardinality(bets_)]
    ELSE [raised |-> "", ret |-> TRUE, total |-> 0, count |-> 0]

\* Table.is_valid: True, or InvalidBet with the total and the number of Bets.
Table_is_valid(bets_) ==
    IF ~(SumAmounts(bets_) <= limit)
    THEN [raised |-> "InvalidBet", ret |-> FALSE,
          total |-> SumAmounts(bets_), count |-> Cardinality(bets_)]
    ELSE [raised |-> "", ret |-> TRUE, total |-> 0, count |-> 0]

\* ------------------------------------------------------------ Player

\* Player.__init__; every subclass calls it first.
Player_init(class) == [class |-> class, stake |-> 1000, rounds_to_go |-> 250]

\* The constructors, on a table whose wheel has the catalog given.
Passenger57_init(catalog) ==
    Player_init("Passenger57") @@
    [black |-> Bet(15, Wheel_get_outcome(catalog, "black"))]

Martingale_init == Player_init("Martingale") @@ [loss_count |-> 0]

SevenReds_init ==
    [Martingale_init EXCEPT !.class = "SevenReds"] @@ [red_count |-> 7]

Player1326_init(catalog) ==
    Player_init("Player1326") @@
    [outcome |-> Wheel_get_outcome(catalog, "black"),
     state |-> "Player1326NoWins"]

PlayerCancellation_init(catalog) ==
    Player_init("PlayerCancellation") @@
    [sequence |-> <<1, 2, 3, 4, 5, 6>>,
     outcome |-> Wheel_get_outcome(catalog, "Red")]

FibonacciPlayer_init ==
    Player_init("FibonacciPlayer") @@ [recent |-> 1, previous |-> 0]

\* PlayerFactory.factory
factory(typ_, catalog) ==
    CASE typ_ = "Passenger57" -> Passenger57_init(catalog)
      [] typ_ = "Martingale" -> Martingale_init
      [] typ_ = "SevenReds" -> SevenReds_init
      [] typ_ = "Player1326" -> Player1326_init(catalog)
      [] typ_ = "PlayerCancellation" -> PlayerCancellation_init(catalog)
      [] typ_ = "FibonacciPlayer" -> FibonacciPlayer_init
      [] OTHER -> Player_init("Player")

IsMartingale(p) == p.class \in {"Martingale", "SevenReds"}

Player_set_stake(p, stake) == [p EXCEPT !.stake = stake]

Player_set_rounds(p, rounds) == [p EXCEPT !.rounds_to_go = rounds]

\* Martingale.set_rounds, inherited by SevenReds.
Martingale_set_rounds(p, rounds) ==
    [Player_set_rounds(p, rounds) EXCEPT !.loss_count = 0]

set_rounds(p, rounds) ==
    IF IsMartingale(p) THEN Martingale_set_rounds(p, rounds)
    ELSE Player_set_rounds(p, rounds)

\* Player.playing, had it looked at rounds_to_go alone.  SatOutRound must
\* tell the two apart.
Player_playing_rounds(p) == [ret |-> p.rounds_to_go > 0, player |-> p]

\* Player.playing, had it left rounds_to_go as it found it.
\* PlayingIffRoundsAndStake must tell the two apart.
Player_playing_keep(p) ==
    [ret |-> p.rounds_to_go > 0 /\ p.stake >= minimum, player |-> p]

\* Player.playing, had it compared the stake with 0 and not with the table
\* minimum.  WagersFromMinimumStake must tell the two apart.
Player_playing_positive(p) ==
    LET p1 == IF p.stake <= 0 THEN set_rounds(p, 0) ELSE p
    IN  [ret |-> p1.rounds_to_go > 0, player |-> p1]

\* Player.playing, had it always returned True.  RoundsNegativeOnlyCancelled
\* must tell the two apart.
Player_playing_always(p) == [ret |-> TRUE, player |-> p]

\* Player.playing: the value returned and the player it leaves.
Player_playing(p) ==
    LET p1 == IF p.stake < minimum THEN set_rounds(p, 0) ELSE p
    IN  [ret |-> p1.rounds_to_go > 0, player |-> p1]

\* Player.win, had it credited the winnings without the wager.
\* SingleBetStake must tell the two apart.
Player_win_odds(p, bet) ==
    [p EXCEPT !.stake = @ + Outcome_win_amount(bet.outcome, bet.amount_bet)]

\* Player.win
Player_win(p, bet) == [p EXCEPT !.stake = @ + Bet_win_amount(bet)]

\* Player.loose
Player_loose(p, bet) == p

\* Player.winners
Player_winners(p, bin_) == p

\* Player.invalid_bet
Player_invalid_bet(p) == p

\* What place_bets gives back: the player, the table's bets and the exception
\* raised, "" when none.
Placed(p, bets_) == [player |-> p, bets |-> bets_, raised |-> ""]

Raises(p, bets_, exception) ==
    [player |-> p, bets |-> bets_, raised |-> exception]

\* ------------------------------------------------------------ Passenger57

Passenger57_place_bets(p, bets_) ==
    Placed([p EXCEPT !.stake = @ - 15], Table_place_bet(bets_, p.black))

\* ------------------------------------------------------------ Martingale

RECURSIVE Pow2(_)
Pow2(n) == IF n <= 0 THEN 1 ELSE 2 * Pow2(n - 1)

Martingale_bet_multiple_linear(p) == p.loss_count + 1

Martingale_bet_multiple(p) == Pow2(p.loss_count)

Martingale_place_bets(p, bets_, catalog) ==
    IF GetOutcomeFails(catalog, "black") THEN Raises(p, bets_, "ValueError")
    ELSE LET wager == minimum * Martingale_bet_multiple(p)
             black == Bet(wager, Wheel_get_outcome(catalog, "black"))
         IN  Placed([p EXCEPT !.stake = @ - wager],
                    Table_place_bet(bets_, black))

Martingale_win(p, bet) == [Player_win(p, bet) EXCEPT !.loss_count = 0]

Martingale_loose(p, bet) == [Player_loose(p, bet) EXCEPT !.loss_count = @ + 1]

Martingale_invalid_bet(p) == [p EXCEPT !.loss_count = 0]

\* ------------------------------------------------------------ SevenReds

\* A SevenReds that bets at red_count = 0 and leaves red_count there.
SevenReds_place_bets_keep(p, bets_, catalog) ==
    IF p.red_count = 0 THEN Martingale_place_bets(p, bets_, catalog)
    ELSE Placed(p, bets_)

SevenReds_place_bets(p, bets_, catalog) ==
    IF p.red_count = 0
    THEN LET r == Martingale_place_bets(p, bets_, catalog)
         IN  IF r.raised # "" THEN r
             ELSE [r EXCEPT !.player.red_count = 7]
    ELSE Placed(p, bets_)

\* A SevenReds that counts every Bin without Black as a red one.
SevenReds_winners_green(p, bin_) ==
    IF ContainsName(bin_, "Black") THEN [p EXCEPT !.red_count = 7]
    ELSE [p EXCEPT !.red_count = @ - 1]

SevenReds_winners(p, bin_) ==
    LET p1 == IF ContainsName(bin_, "Red")
              THEN [p EXCEPT !.red_count = @ - 1] ELSE p
    IN  IF ContainsName(bin_, "Black")
        THEN [p1 EXCEPT !.red_count = 7] ELSE p1

SevenReds_invalid_bet(p) == [p EXCEPT !.loss_count = 0]

\* ------------------------------------------------------------ Player1326

\* The four state classes: multiplier and next_state_win.
multiplier(state) ==
    CASE state = "Player1326NoWins" -> 1
      [] state = "Player1326OneWin" -> 3
      [] state = "Player1326TwoWins" -> 2
      [] state = "Player1326ThreeWins" -> 6

\* Every win leads to Player1326OneWin.
next_state_win_one(state) == "Player1326OneWin"

next_state_win(state) ==
    CASE state = "Player1326NoWins" -> "Player1326OneWin"
      [] state = "Player1326OneWin" -> "Player1326TwoWins"
      [] state = "Player1326TwoWins" -> "Player1326ThreeWins"
      [] state = "Player1326ThreeWins" -> "Player1326NoWins"

\* Player1326State.current_bet
current_bet(p) == Bet(minimum * multiplier(p.state), p.outcome)

\* Player1326State.next_won
next_won(p) == [p EXCEPT !.state = next_state_win(p.state)]

next_lost_keep(p) == p

\* Player1326State.next_lost
next_lost(p) == [p EXCEPT !.state = "Player1326NoWins"]

Player1326_place_bets(p, bets_) ==
    LET bet == current_bet(p)
    IN  Placed([p EXCEPT !.stake = @ - bet.amount_bet],
               Table_place_bet(bets_, bet))

Player1326_win(p, bet) == next_won(Player_win(p, bet))

Player1326_loose(p, bet) == next_lost(Player_loose(p, bet))

\* ------------------------------------------------------------ PlayerCancellation

reset_sequence(p) == [p EXCEPT !.sequence = <<1, 2, 3, 4, 5, 6>>]

\* place_bets, had it wagered the first number of the sequence alone.
\* CancellationLedger must tell the two apart.
PlayerCancellation_place_bets_first(p, bets_) ==
    IF p.sequence = <<>> THEN Raises(p, bets_, "IndexError")
    ELSE LET amount == p.sequence[1]
         IN  Placed([p EXCEPT !.stake = @ - amount],
                    Table_place_bet(bets_, Bet(amount, p.outcome)))

PlayerCancellation_place_bets(p, bets_) ==
    IF p.sequence = <<>> THEN Raises(p, bets_, "IndexError")
    ELSE LET amount == p.sequence[1] + p.sequence[Len(p.sequence)]
         IN  Placed([p EXCEPT !.stake = @ - amount],
                    Table_place_bet(bets_, Bet(amount, p.outcome)))

\* A win that leaves rounds_to_go alone.
PlayerCancellation_win_rounds(p, bet) ==
    LET p1 == Player_win(p, bet)
    IN  [p1 EXCEPT !.sequence =
            IF Len(@) = 1 THEN <<>> ELSE SubSeq(@, 2, Len(@) - 1)]

\* PlayerCancellation.win on a non-empty sequence (del sequence[0] raises
\* IndexError on an empty one: CancellationWinFails).
PlayerCancellation_win(p, bet) ==
    LET p1 == Player_win(p, bet)
        p2 == [p1 EXCEPT !.sequence = Tail(@)]
        p3 == IF p2.sequence = <<>> THEN set_rounds(p2, 0)
              ELSE [p2 EXCEPT !.sequence = SubSeq(@, 1, Len(@) - 1)]
    IN  IF p3.sequence = <<>> THEN set_rounds(p3, 0) ELSE p3

CancellationWinFails(p) == p.sequence = <<>>

PlayerCancellation_loose_keep(p, bet) == Player_loose(p, bet)

PlayerCancellation_loose(p, bet) ==
    [Player_loose(p, bet) EXCEPT !.sequence = Append(@, bet.amount_bet)]

PlayerCancellation_invalid_bet_keep(p) == p

PlayerCancellation_invalid_bet(p) == reset_sequence(p)

\* ------------------------------------------------------------ FibonacciPlayer

FibonacciPlayer_place_bets(p, bets_, catalog) ==
    IF GetOutcomeFails(catalog, "Red") THEN Raises(p, bets_, "ValueError")
    ELSE LET wager == p.recent + p.previous
         IN  Placed([p EXCEPT !.stake = @ - wager * 10],
                    Table_place_bet(bets_,
                        Bet(wager * 10, Wheel_get_outcome(catalog, "Red"))))

FibonacciPlayer_win(p, bet) ==
    [Player_win(p, bet) EXCEPT !.recent = 1, !.previous = 0]

\* A loss that compares the sum, not ten times the sum, with the limit.
FibonacciPlayer_loose_at_sum(p, bet, table_) ==
    LET p1 == Player_loose(p, bet)
        next_ == p1.recent + p1.previous
    IN  IF next_ > table_.limit
        THEN [p1 EXCEPT !.recent = 1, !.previous = 0]
        ELSE [p1 EXCEPT !.previous = p1.recent, !.recent = next_]

\* FibonacciPlayer.loose at a table of any limit.
FibonacciPlayer_loose_at(p, bet, table_) ==
    LET p1 == Player_loose(p, bet)
        next_ == p1.recent + p1.previous
    IN  IF next_ * 10 > table_.limit
        THEN [p1 EXCEPT !.recent = 1, !.previous = 0]
        ELSE [p1 EXCEPT !.previous = p1.recent, !.recent = next_]

\* FibonacciPlayer.loose at the table Game makes, RouletteTable(10, 100).
FibonacciPlayer_loose(p, bet) ==
    FibonacciPlayer_loose_at(p, bet, Table_init(minimum, limit))

FibonacciPlayer_invalid_bet(p) == [p EXCEPT !.recent = 1, !.previous = 0]

\* ------------------------------------------------------------ dispatch

\* player.place_bets(): the method of the player's class.
place_bets(p, bets_, catalog) ==
    CASE p.class = "Passenger57" -> Passenger57_place_bets(p, bets_)
      [] p.class = "Martingale" -> Martingale_place_bets(p, bets_, catalog)
      [] p.class = "SevenReds" -> SevenReds_place_bets(p, bets_, catalog)
      [] p.class = "Player1326" -> Player1326_place_bets(p, bets_)
      [] p.class = "PlayerCancellation" ->
            PlayerCancellation_place_bets(p, bets_)
      [] p.class = "FibonacciPlayer" ->
            FibonacciPlayer_place_bets(p, bets_, catalog)
      [] OTHER -> Raises(p, bets_, "NotImplementedError")

win(p, bet) ==
    CASE IsMartingale(p) -> Martingale_win(p, bet)
      [] p.class = "Player1326" -> Player1326_win(p, bet)
      [] p.class = "PlayerCancellation" -> PlayerCancellation_win(p, bet)
      [] p.class = "FibonacciPlayer" -> FibonacciPlayer_win(p, bet)
      [] OTHER -> Player_win(p, bet)

loose(p, bet) ==
    CASE IsMartingale(p) -> Martingale_loose(p, bet)
      [] p.class = "Player1326" -> Player1326_loose(p, bet)
      [] p.class = "PlayerCancellation" -> PlayerCancellation_loose(p, bet)
      [] p.class = "FibonacciPlayer" -> FibonacciPlayer_loose(p, bet)
      [] OTHER -> Player_loose(p, bet)

\* player.loose(bet) of a player whose table is table_.
loose_at(p, bet, table_) ==
    IF p.class = "FibonacciPlayer" THEN FibonacciPlayer_loose_at(p, bet, table_)
    ELSE loose(p, bet)

winners(p, bin_) ==
    IF p.class = "SevenReds" THEN SevenReds_winners(p, bin_)
    ELSE Player_winners(p, bin_)

invalid_bet(p) ==
    CASE p.class = "Martingale" -> Martingale_invalid_bet(p)
      [] p.class = "SevenReds" -> SevenReds_invalid_bet(p)
      [] p.class = "PlayerCancellation" -> PlayerCancellation_invalid_bet(p)
      [] p.class = "FibonacciPlayer" -> FibonacciPlayer_invalid_bet(p)
      [] OTHER -> Player_invalid_bet(p)

\* ------------------------------------------------------------ Game

\* Game.cycle without its `except InvalidBet:`.  InvalidBetContained must
\* tell the two apart.
Catches_none(exception) == FALSE

\* `except InvalidBet:` in Game.cycle: the one exception it handles.
Catches(exception) == exception = "InvalidBet"

\* Game.cycle without its refund loop.  InvalidBetRefunded must tell the two
\* apart.
Refund_none(p, bets_) == p

\* The refund loop of Game.cycle: one set_stake per Bet on the table.
RECURSIVE Refund(_, _)
Refund(p, bets_) ==
    IF bets_ = {} THEN p
    ELSE LET bet == CHOOSE b \in bets_ : TRUE
         IN  Refund(Player_set_stake(p, p.stake + bet.amount_bet),
                    bets_ \ {bet})

\* Game.cycle up to the spin: the table is cleared, the player is asked whether
\* it plays and, if so, places its bets, which the table validates.
\* `playing` is the local of that name; `trace` lists the calls made.
Cycle_bets(p, catalog) ==
    LET pl == Player_playing(p)
        t1 == << [hook |-> "table"], [hook |-> "playing", ret |-> pl.ret] >>
        pb == place_bets(pl.player, Table_table, catalog)
        t2 == Append(t1, [hook |-> "place_bets", stake |-> pb.player.stake])
        v  == Table_is_valid(pb.bets)
        t3 == Append(t2, [hook |-> "is_valid", ret |-> v.ret])
    IN  IF ~pl.ret
        THEN [player |-> pl.player, bets |-> Table_table, trace |-> t1,
              raised |-> "", playing |-> FALSE]
        ELSE IF pb.raised # ""
        THEN [player |-> pb.player, bets |-> pb.bets, trace |-> t2,
              raised |-> pb.raised, playing |-> TRUE]
        ELSE IF v.raised = ""
        THEN [player |-> pb.player, bets |-> pb.bets, trace |-> t3,
              raised |-> "", playing |-> TRUE]
        ELSE IF ~Catches(v.raised)
        THEN [player |-> pb.player, bets |-> pb.bets, trace |-> t3,
              raised |-> v.raised, playing |-> TRUE]
        ELSE [player |-> invalid_bet(Refund(pb.player, pb.bets)),
              bets |-> Table_table,
              trace |-> t3 \o << [hook |-> "invalid_bet"],
                                 [hook |-> "table"] >>,
              raised |-> "", playing |-> TRUE]

\* The body of the loop, had it called win for every bet.  OneHookPerBet must
\* tell the two apart.
Resolve_bet_win(r, bet, winning_bin) ==
    [player |-> win(r.player, bet),
     trace |-> Append(r.trace, [hook |-> "win", bet |-> bet])]

\* The body of the loop over the table's bets: win if the bet's outcome is in
\* the winning bin, loose if it is not.
Resolve_bet(r, bet, winning_bin) ==
    LET r1 == IF Contains(winning_bin, bet.outcome)
              THEN [player |-> win(r.player, bet),
                    trace |-> Append(r.trace, [hook |-> "win", bet |-> bet])]
              ELSE r
    IN  IF ~Contains(winning_bin, bet.outcome)
        THEN [player |-> loose(r1.player, bet),
              trace |-> Append(r1.trace, [hook |-> "loose", bet |-> bet])]
        ELSE r1

\* The loop itself, over the bets in the order the set yields them.
RECURSIVE Resolve(_, _, _)
Resolve(r, order, winning_bin) ==
    IF order = <<>> THEN r
    ELSE Resolve(Resolve_bet(r, Head(order), winning_bin),
                 Tail(order), winning_bin)

\* The decrement, had it stopped at zero.  CycleDecrements must tell the two
\* apart.
Decrement_positive(p) ==
    IF p.rounds_to_go > 0 THEN [p EXCEPT !.rounds_to_go = @ - 1] ELSE p

\* `player.rounds_to_go -= 1`
Decrement(p) == [p EXCEPT !.rounds_to_go = @ - 1]

\* What the trace keeps of a Bin: its Outcomes among those the strategies bet
\* on and look for, Red and Black.  The 38 Bins give three such sets.
Coloured(bin_) == {o \in bin_ : o.name \in {"Red", "Black"}}

\* The spin, had winners been called for a playing player only.
\* WinnersOncePerCycle must tell the two apart.
Announce_playing(m, winning_bin) ==
    [player |-> IF m.playing THEN winners(m.player, winning_bin) ELSE m.player,
     trace |-> Append(m.trace,
                      [hook |-> "next", bin |-> Coloured(winning_bin)]) \o
               (IF m.playing
                THEN << [hook |-> "winners", bin |-> Coloured(winning_bin)] >>
                ELSE << >>)]

\* `winning_bin = self.wheel.next()` and `player.winners(winning_bin)`.
Announce(m, winning_bin) ==
    [player |-> winners(m.player, winning_bin),
     trace |-> m.trace \o
         << [hook |-> "next", bin |-> Coloured(winning_bin)],
            [hook |-> "winners", bin |-> Coloured(winning_bin)] >>]

\* Game.cycle from the spin on. m is what Cycle_bets left, winning_bin the
\* Bin wheel.next() chose.
Cycle_resolve(m, winning_bin, order) ==
    LET r0 == Announce(m, winning_bin)
        r1 == IF m.playing THEN Resolve(r0, order, winning_bin) ELSE r0
    IN  IF m.raised # ""
        THEN [player |-> m.player, bets |-> m.bets, trace |-> m.trace,
              raised |-> m.raised]
        ELSE [player |-> Decrement(r1.player), bets |-> m.bets,
              trace |-> r1.trace, raised |-> ""]

\* The orders in which a `for` over a set may visit its elements.
Orders(S) ==
    {o \in [1..Cardinality(S) -> S] :
        \A i, j \in 1..Cardinality(S) : i # j => o[i] # o[j]}

\* Game.cycle(player): every way the call can end, one for each Bin that
\* wheel.next() may choose and each order the loop may take the bets in.
Game_cycle(p, bins_, catalog) ==
    UNION {{Cycle_resolve(m, bins_[bin_], order) :
                bin_ \in BinIndex, order \in Orders(m.bets)} :
            m \in {Cycle_bets(p, catalog)}}

\* ------------------------------------------------------------ streaks

\* No win and no loss since the progression was last reset.
NoStreak == [hook |-> "", n |-> 0]

\* The streak once player p was told of one more hook: win and loose extend
\* the run or begin a new one, invalid_bet ends it.
Told(s, hook, p) ==
    IF hook \in {"win", "loose"}
    THEN IF s.hook = hook THEN [s EXCEPT !.n = @ + 1]
         ELSE [hook |-> hook, n |-> 1, first |-> p]
    ELSE IF hook = "invalid_bet" THEN NoStreak
    ELSE s

RECURSIVE ToldAll(_, _, _)
ToldAll(s, calls, p) ==
    IF calls = <<>> THEN s
    ELSE ToldAll(Told(s, Head(calls).hook, p), Tail(calls), p)

\* The streak after a cycle: playing() calls set_rounds on a stake below the
\* minimum, PlayerCancellation.win calls it as it empties the sequence.
StreakAfter(s, p, r) ==
    IF /\ r.player.class = "PlayerCancellation"
       /\ r.player.sequence = <<>>
       /\ \E i \in DOMAIN r.trace : r.trace[i].hook = "win"
    THEN NoStreak
    ELSE ToldAll(IF p.stake < minimum THEN NoStreak ELSE s, r.trace, p)

\* The rounds in a row that announced Red, counted up to the seven that
\* SevenReds waits for, once the round of the last call is added: none if that
\* call was no Game.cycle or its spin gave a Bin without Red.
RedsBefore(call_, trace_, reds_) ==
    IF /\ call_ = "cycle"
       /\ \E i \in DOMAIN trace_ :
             trace_[i].hook = "next" /\ ContainsName(trace_[i].bin, "Red")
    THEN IF reds_ < 7 THEN reds_ + 1 ELSE 7
    ELSE 0

\* No Simulator.session was begun.
NoSession == [n |-> 0, loop |-> FALSE, history |-> <<>>]

\* ------------------------------------------------------------ the system

Strategies == {"Passenger57", "Martingale", "SevenReds", "Player1326",
               "PlayerCancellation", "FibonacciPlayer"}

\* Stakes a session starts from: Player.__init__ gives 1000, the tests set
\* stakes below the table minimum, and 25 lets a stake run out in play.
InitStakes == {5, 25, 1000}

\* Sessions of one Simulator.gather; Simulator.samples is 50.
MaxSessions == 2

\* Calls made on one player directly, before the calls of FibonacciPlayer's
\* ten losses in a row and of SevenReds's seven reds are added.
MaxCalls == 10

\* SevenReds sits out until red_count, 7 at first, has reached 0; the sixth
\* wager of FibonacciPlayer in a row is its first above the limit.
RoundsFor(typ_) ==
    MaxRounds + (CASE typ_ = "SevenReds" -> 7
                   [] typ_ = "FibonacciPlayer" -> 1
                   [] OTHER -> 0)

Bool(b) == IF b THEN "True" ELSE "False"

InitWheel ==
    /\ bins = BuiltWheel.bins
    /\ all_outcomes = BuiltWheel.all_outcomes

InitCall ==
    /\ call = "__init__"
    /\ ret = "None"
    /\ raised = ""
    /\ message = <<>>
    /\ before = player
    /\ trace = <<>>
    /\ cycles = 0
    /\ forced = <<>>
    /\ table = Table_init(minimum, limit)
    /\ streak = NoStreak
    /\ reds = 0
    /\ session = NoSession

\* A wheel, a table and a player as Simulator.__init__ makes them, the player
\* given its stake and its rounds as Simulator.session does.
Init ==
    /\ InitWheel
    /\ bets = {}
    /\ \E typ_ \in Strategies, stake \in InitStakes :
          player = set_rounds(
                      Player_set_stake(factory(typ_, BuiltWheel.all_outcomes),
                                       stake),
                      RoundsFor(typ_))
    /\ InitCall

\* The positions of the calls of one method in the trace of the last cycle.
Hooks(name) == {i \in DOMAIN trace : trace[i].hook = name}

\* playing() overwrites rounds_to_go when the stake is below the minimum.
Forced(p, f) ==
    IF p.stake < minimum /\ f = <<>> THEN <<p.rounds_to_go>> ELSE f

\* Game.cycle(player)
Cycle ==
    /\ cycles < RoundsFor(player.class) + MaxSitOut
    /\ cycles' = cycles + 1
    /\ \E r \in Game_cycle(player, bins, all_outcomes) :
          /\ player' = r.player
          /\ bets' = r.bets
          /\ trace' = r.trace
          /\ raised' = r.raised
          /\ streak' = StreakAfter(streak, player, r)
    /\ call' = "cycle"
    /\ ret' = "None"
    /\ message' = <<>>
    /\ before' = player
    /\ forced' = Forced(player, forced)
    /\ reds' = RedsBefore(call, trace, reds)
    /\ UNCHANGED <<bins, all_outcomes, table, session>>

Next == Cycle

Spec == Init /\ [][Next]_vars

\* ------------------------------------------------------------ a Player alone

PlayerClasses == Strategies \cup {"Player"}

StakeInputs == {0, 5, 10, 1000}

\* A player as its constructor leaves it, at a table that is clear.
InitPlayer ==
    /\ InitWheel
    /\ bets = {}
    /\ \E typ_ \in PlayerClasses :
          player = factory(typ_, BuiltWheel.all_outcomes)
    /\ InitCall

Returns(name, value) ==
    /\ call' = name
    /\ ret' = value
    /\ raised' = ""
    /\ message' = <<>>
    /\ before' = player
    /\ trace' = <<>>

\* player.playing()
Playing ==
    /\ player' = Player_playing(player).player
    /\ Returns("playing", Bool(Player_playing(player).ret))
    /\ forced' = Forced(player, forced)
    /\ streak' = IF player.stake < table.minimum THEN NoStreak ELSE streak
    /\ UNCHANGED <<bins, all_outcomes, bets, cycles, table, reds, session>>

\* player.set_stake(stake)
SetStake ==
    /\ \E stake \in StakeInputs : player' = Player_set_stake(player, stake)
    /\ Returns("set_stake", "None")
    /\ UNCHANGED <<bins, all_outcomes, bets, cycles, forced, table, streak,
                   reds, session>>

\* player.set_rounds(rounds)
SetRounds ==
    /\ \E rounds \in 0..MaxRounds : player' = set_rounds(player, rounds)
    /\ Returns("set_rounds", "None")
    /\ forced' = <<>>
    /\ streak' = NoStreak
    /\ UNCHANGED <<bins, all_outcomes, bets, cycles, table, reds, session>>

NextPlayer == Playing \/ SetStake \/ SetRounds

SpecPlayer == InitPlayer /\ [][NextPlayer]_vars

\* ------------------------------------------------------------ a Table alone

\* The Bets of Table.is_valid's doctest and of TestTable, and amounts that
\* reach the limit exactly and pass it by one.
BetInputs ==
    {Bet(amount, outcome) :
        amount \in {1, 10, 15, 75, 100},
        outcome \in {Outcome("Straight 1", straightbet),
                     Outcome("00-0-1-2-3", fivebet),
                     Outcome("Red", evenmoneybet)}}

\* Table(10, 100), with no Bets, and a player that places none.
InitTable ==
    /\ InitWheel
    /\ bets = {}
    /\ player = Player_init("Player")
    /\ InitCall

\* table.place_bet(bet)
PlaceBet ==
    /\ Cardinality(bets) < MaxBets
    /\ \E bet \in BetInputs :
          /\ bets' = Table_place_bet(bets, bet)
          /\ trace' = <<[hook |-> "place_bet", bet |-> bet, on_table |-> bets]>>
    /\ call' = "place_bet"
    /\ ret' = "None"
    /\ raised' = ""
    /\ message' = <<>>
    /\ before' = player
    /\ UNCHANGED <<bins, all_outcomes, player, cycles, forced, table, streak,
                   reds, session>>

\* table.is_valid()
IsValid ==
    LET v == Table_is_valid(bets)
    IN  /\ call' = "is_valid"
        /\ ret' = IF v.raised = "" THEN Bool(v.ret) ELSE "None"
        /\ raised' = v.raised
        /\ message' = IF v.raised = "" THEN <<>> ELSE <<v.total, v.count>>
        /\ before' = player
        /\ trace' = <<>>
        /\ UNCHANGED <<bins, all_outcomes, bets, player, cycles, forced,
                       table, streak, reds, session>>

\* table.table()
TableClear ==
    /\ bets' = Table_table
    /\ Returns("table", "None")
    /\ UNCHANGED <<bins, all_outcomes, player, cycles, forced, table, streak,
                   reds, session>>

NextTable == PlaceBet \/ IsValid \/ TableClear

SpecTable == InitTable /\ [][NextTable]_vars

\* ------------------------------------------------------------ Outcomes and Bets alone
\* The methods of Outcome and Bet applied to values, as TestOutcome and TestBet
\* apply them.

\* Amounts up to MaxAmount, and below zero as far.
MaxAmount == 2

Amounts == (-MaxAmount)..MaxAmount

\* Outcomes of two names, each with the odds of three kinds of bet.
OutcomeValues ==
    {Outcome(name, odds) :
        name \in {"Red", "Black"},
        odds \in {evenmoneybet, dozenbet, straightbet}}

BetValues == {Bet(amount, outcome) : amount \in Amounts, outcome \in OutcomeValues}

\* Two Bets made, of every amount on every Outcome.
InitBet ==
    /\ InitWheel
    /\ bets = {}
    /\ player = Player_init("Player")
    /\ call = "__init__"
    /\ ret = "None"
    /\ raised = ""
    /\ message = <<>>
    /\ before = player
    /\ \E bet \in BetValues, other \in BetValues :
          trace = <<[hook |-> "__init__", bet |-> bet, other |-> other]>>
    /\ cycles = 0
    /\ forced = <<>>
    /\ table = Table_init(minimum, limit)
    /\ streak = NoStreak
    /\ reds = 0
    /\ session = NoSession

\* The call of one method on the Bets made.
Applies(name) ==
    /\ call' = name
    /\ trace' = <<[trace[1] EXCEPT !.hook = name]>>
    /\ before' = player
    /\ UNCHANGED <<bins, all_outcomes, bets, player, cycles, forced, table,
                   streak, reds, session>>

\* bet == other, and the hashes of the two.
BetEq ==
    /\ ret' = Bool(Bet_eq(trace[1].bet, trace[1].other))
    /\ raised' = ""
    /\ message' = <<Bet_hash(trace[1].bet), Bet_hash(trace[1].other)>>
    /\ Applies("__eq__")

\* bet.outcome.win_amount(bet.amount_bet)
OutcomeWinAmount ==
    /\ IF WinAmountFails(trace[1].bet.amount_bet)
       THEN raised' = "AssertionError" /\ ret' = "None"
       ELSE /\ raised' = ""
            /\ ret' = Outcome_win_amount(trace[1].bet.outcome,
                                         trace[1].bet.amount_bet)
    /\ message' = <<>>
    /\ Applies("Outcome.win_amount")

\* bet.win_amount(): Outcome.win_amount(amount_bet), and its assertion.
BetWinAmount ==
    /\ IF WinAmountFails(trace[1].bet.amount_bet)
       THEN raised' = "AssertionError" /\ ret' = "None"
       ELSE raised' = "" /\ ret' = Bet_win_amount(trace[1].bet)
    /\ message' = <<>>
    /\ Applies("Bet.win_amount")

NextBet == BetEq \/ OutcomeWinAmount \/ BetWinAmount

SpecBet == InitBet /\ [][NextBet]_vars

\* ------------------------------------------------------------ the Wheel alone
\* add and get called on the built wheel, as TestWheel calls them.

\* The number of Outcomes added to the built wheel.
MaxAdds == 2

\* The first bin, the second, the last, and the indices next to the range.
AddBins == {-1, 0, 1, NumBins - 1, NumBins}

\* An Outcome that bins 0, 1 and 37 hold, the same name with other odds, an
\* Outcome of the catalog that only bin 1 of these holds, and a new one.
AddOutcomes ==
    {Outcome("00-0-1-2-3", fivebet), Outcome("00-0-1-2-3", evenmoneybet),
     Outcome("Red", evenmoneybet), Outcome("Green", straightbet)}

\* Every index from the start of the tuple and the one past its end; from the
\* end, the last bin, the first, and the one before it.
GetBins == {-NumBins - 1, -NumBins, -1} \cup 0..NumBins

InitWheelAlone ==
    /\ InitWheel
    /\ bets = {}
    /\ player = Player_init("Player")
    /\ InitCall

\* wheel.add(bin_, outcome)
WheelAdd ==
    /\ cycles < MaxAdds
    /\ \E bin_ \in AddBins, outcome \in AddOutcomes :
          /\ trace' = <<[hook |-> "add", bin_ |-> bin_, outcome |-> outcome]>>
          /\ IF ~ValidBin(bin_)
             THEN /\ raised' = "AssertionError"
                  /\ UNCHANGED <<bins, all_outcomes, cycles>>
             ELSE /\ raised' = ""
                  /\ \E w \in {Wheel_add([bins |-> bins,
                                          all_outcomes |-> all_outcomes],
                                         bin_, outcome)} :
                        bins' = w.bins /\ all_outcomes' = w.all_outcomes
                  /\ cycles' = cycles + 1
    /\ call' = "add"
    /\ ret' = "None"
    /\ message' = <<>>
    /\ before' = player
    /\ UNCHANGED <<bets, player, forced, table, streak, reds, session>>

\* wheel.get(bin_)
WheelGet ==
    /\ \E bin_ \in GetBins :
          /\ trace' = <<[hook |-> "get", bin_ |-> bin_]>>
          /\ IF GetFails(bin_)
             THEN raised' = "IndexError" /\ ret' = "None"
             ELSE raised' = "" /\ ret' = Wheel_get(bins, bin_)
    /\ call' = "get"
    /\ message' = <<>>
    /\ before' = player
    /\ UNCHANGED <<bins, all_outcomes, bets, player, cycles, forced, table,
                   streak, reds, session>>

NextWheel == WheelAdd \/ WheelGet

SpecWheel == InitWheelAlone /\ [][NextWheel]_vars

\* ------------------------------------------------------------ get_outcome alone
\* wheel.get_outcome(name) on the built wheel, as TestWheel.test_get_outcome
\* calls it with 'straight 8'.

\* The text s with every letter of one alphabet replaced by its counterpart.
RECURSIVE Recase(_, _, _)
Recase(s, from, to) ==
    IF Len(s) = 0 THEN ""
    ELSE LET c == SubSeq(s, 1, 1)
         IN  (IF \E k \in 1..26 : from[k] = c
              THEN to[CHOOSE k \in 1..26 : from[k] = c]
              ELSE c) \o Recase(SubSeq(s, 2, Len(s)), from, to)

\* A name as the catalog spells it, in capitals and in small letters.
LetterCases(name) == {name, Recase(name, Lower, Upper), Recase(name, Upper, Lower)}

\* Names of no Outcome: the empty name, names of another bet, of a bin the
\* wheel lacks, and names with a character more or less than a catalog name.
OtherNames == {"", "Purple", "Reds", "Re", "red ", "Straight 38", "0-00-1-2-3"}

\* The built wheel and the name to look up: `of` is the Outcome whose name it
\* spells, or the empty set for a name of no Outcome.
InitGetOutcome ==
    /\ InitWheel
    /\ bets = {}
    /\ player = Player_init("Player")
    /\ call = "__init__"
    /\ ret = "None"
    /\ raised = ""
    /\ message = <<>>
    /\ before = player
    /\ \/ \E oc \in all_outcomes : \E name \in LetterCases(oc.name) :
            trace = <<[hook |-> "__init__", name |-> name, of |-> {oc}]>>
       \/ \E name \in OtherNames :
            trace = <<[hook |-> "__init__", name |-> name, of |-> {}]>>
    /\ cycles = 0
    /\ forced = <<>>
    /\ table = Table_init(minimum, limit)
    /\ streak = NoStreak
    /\ reds = 0
    /\ session = NoSession

\* wheel.get_outcome(name)
GetOutcome ==
    /\ IF GetOutcomeFails(all_outcomes, trace[1].name)
       THEN raised' = "ValueError" /\ ret' = "None"
       ELSE raised' = "" /\ ret' = Wheel_get_outcome(all_outcomes, trace[1].name)
    /\ message' = <<>>
    /\ Applies("get_outcome")

NextGetOutcome == GetOutcome

SpecGetOutcome == InitGetOutcome /\ [][NextGetOutcome]_vars

\* ------------------------------------------------------------ the Wheel built
\* Wheel.__init__: BinBuilder.build_bins fills the empty wheel, one wheel.add
\* at a time, method after method.

\* BinBuilder.build_bins: the methods in the order they are called.
build_bins_calls ==
    << [name |-> "straight", calls |-> straight_calls],
       [name |-> "five", calls |-> five_calls],
       [name |-> "split_bets", calls |-> split_bets_calls],
       [name |-> "street_bets", calls |-> street_bets_calls],
       [name |-> "corner_bets", calls |-> corner_bets_calls],
       [name |-> "line_bets", calls |-> line_bets_calls],
       [name |-> "dozen_bets", calls |-> dozen_bets_calls],
       [name |-> "column_bets", calls |-> column_bets_calls],
       [name |-> "even_money_bets", calls |-> even_money_bets_calls] >>

\* The number of wheel.add calls made when method k begins.
RECURSIVE Started(_)
Started(k) ==
    IF k = 1 THEN 0 ELSE Started(k - 1) + Len(build_bins_calls[k - 1].calls)

\* Wheel.__init__ before BinBuilder runs.
InitBuild ==
    /\ bins = EmptyWheel.bins
    /\ all_outcomes = EmptyWheel.all_outcomes
    /\ bets = {}
    /\ player = Player_init("Player")
    /\ InitCall

\* Method k of build_bins has wheel.add calls left to make.
Building(k) ==
    /\ call # "Wheel"
    /\ Started(k) <= cycles
    /\ cycles < Started(k) + Len(build_bins_calls[k].calls)

\* The next wheel.add of method k of build_bins.
Adds(k) ==
    /\ \E add \in {build_bins_calls[k].calls[cycles - Started(k) + 1]} :
          /\ trace' = <<[hook |-> "add", bin_ |-> add[1], outcome |-> add[2]]>>
          /\ IF ~ValidBin(add[1])
             THEN /\ raised' = "AssertionError"
                  /\ call' = "Wheel"
                  /\ UNCHANGED <<bins, all_outcomes>>
             ELSE /\ raised' = ""
                  /\ call' = build_bins_calls[k].name
                  /\ \E w \in {Wheel_add([bins |-> bins,
                                          all_outcomes |-> all_outcomes],
                                         add[1], add[2])} :
                        bins' = w.bins /\ all_outcomes' = w.all_outcomes
    /\ cycles' = cycles + 1
    /\ ret' = "None"
    /\ message' = <<>>
    /\ before' = player
    /\ UNCHANGED <<bets, player, forced, table, streak, reds, session>>

BuildStraight == Building(1) /\ Adds(1)

BuildFive == Building(2) /\ Adds(2)

BuildSplitBets == Building(3) /\ Adds(3)

BuildStreetBets == Building(4) /\ Adds(4)

BuildCornerBets == Building(5) /\ Adds(5)

BuildLineBets == Building(6) /\ Adds(6)

BuildDozenBets == Building(7) /\ Adds(7)

BuildColumnBets == Building(8) /\ Adds(8)

BuildEvenMoneyBets == Building(9) /\ Adds(9)

\* build_bins returned, and Wheel.__init__ with it.
BuildReturns ==
    /\ call # "Wheel"
    /\ cycles = Started(9) + Len(build_bins_calls[9].calls)
    /\ call' = "Wheel"
    /\ ret' = "None"
    /\ raised' = ""
    /\ message' = <<>>
    /\ before' = player
    /\ trace' = <<>>
    /\ UNCHANGED <<bins, all_outcomes, bets, player, cycles, forced, table,
                   streak, reds, session>>

NextBuild ==
    \/ BuildStraight
    \/ BuildFive
    \/ BuildSplitBets
    \/ BuildStreetBets
    \/ BuildCornerBets
    \/ BuildLineBets
    \/ BuildDozenBets
    \/ BuildColumnBets
    \/ BuildEvenMoneyBets
    \/ BuildReturns

SpecBuild == InitBuild /\ [][NextBuild]_vars

\* ------------------------------------------------------------ a strategy alone
\* The hooks of one player called directly, as the unit tests call them: the
\* Bet that place_bets put on the table is popped and handed to win or loose.

\* RouletteTable(10, 100), and a table whose limit ten Fibonacci losses in a
\* row stay under.
TableLimits == {limit, 10 * limit}

CallsFor(typ_) ==
    MaxCalls + (CASE typ_ = "FibonacciPlayer" -> 10
                  [] typ_ = "SevenReds" -> 7
                  [] OTHER -> 0)

\* A player as its constructor leaves it, at a table that is clear.  Only
\* FibonacciPlayer reads table.limit.
InitStrategy ==
    /\ InitWheel
    /\ bets = {}
    /\ \E typ_ \in Strategies :
          /\ player = factory(typ_, BuiltWheel.all_outcomes)
          /\ \E limit_ \in TableLimits :
                /\ typ_ # "FibonacciPlayer" => limit_ = limit
                /\ table = Table_init(minimum, limit_)
    /\ call = "__init__"
    /\ ret = "None"
    /\ raised = ""
    /\ message = <<>>
    /\ before = player
    /\ trace = <<>>
    /\ cycles = 0
    /\ forced = <<>>
    /\ streak = NoStreak
    /\ reds = 0
    /\ session = NoSession

Called(name, event) ==
    /\ cycles < CallsFor(player.class)
    /\ cycles' = IF player' = player /\ bets' = bets THEN cycles ELSE cycles + 1
    /\ call' = name
    /\ ret' = "None"
    /\ message' = <<>>
    /\ before' = player
    /\ trace' = << event >>
    /\ streak' = Told(streak, name, player)
    /\ UNCHANGED <<bins, all_outcomes, forced, table, reds, session>>

\* player.place_bets(), at a clear table
StrategyPlaceBets ==
    /\ bets = {}
    /\ \E r \in {place_bets(player, bets, all_outcomes)} :
          /\ player' = r.player
          /\ bets' = r.bets
          /\ raised' = r.raised
          /\ Called("place_bets",
                    [hook |-> "place_bets", stake |-> r.player.stake])

\* player.win(table.bets.pop())
StrategyWin ==
    \E bet \in bets :
        /\ ~(player.class = "PlayerCancellation" /\ CancellationWinFails(player))
        /\ player' = win(player, bet)
        /\ bets' = bets \ {bet}
        /\ raised' = ""
        /\ Called("win", [hook |-> "win", bet |-> bet])

\* player.loose(table.bets.pop())
StrategyLoose ==
    \E bet \in bets :
        /\ player' = loose_at(player, bet, table)
        /\ bets' = bets \ {bet}
        /\ raised' = ""
        /\ Called("loose", [hook |-> "loose", bet |-> bet])

\* player.invalid_bet()
StrategyInvalidBet ==
    /\ player' = invalid_bet(player)
    /\ raised' = ""
    /\ UNCHANGED bets
    /\ Called("invalid_bet", [hook |-> "invalid_bet"])

\* The Bins announced to a player: 0 and 00, which hold neither Red nor Black,
\* the red 1 and the black 2.
WinnerBins == {0, 1, 2, NumBins - 1}

\* player.winners(wheel.get(bin)), of the one class that overrides the empty
\* Player.winners
StrategyWinners ==
    \E bin_ \in WinnerBins :
        /\ player.class = "SevenReds"
        /\ player' = winners(player, bins[bin_])
        /\ raised' = ""
        /\ UNCHANGED bets
        /\ Called("winners", [hook |-> "winners", bin |-> Coloured(bins[bin_]),
                              index |-> bin_])

NextStrategy ==
    \/ StrategyPlaceBets
    \/ StrategyWin
    \/ StrategyLoose
    \/ StrategyInvalidBet
    \/ StrategyWinners
    \/ Playing

SpecStrategy == InitStrategy /\ [][NextStrategy]_vars

\* ------------------------------------------------------------ the Simulator
\* Simulator.gather: sessions of one player object, one after the other.  A
\* session lasts RoundsFor rounds where Simulator.init_duration gives 250.

\* Simulator.__init__: the player as PlayerFactory makes it.
InitSession ==
    /\ InitWheel
    /\ bets = {}
    /\ \E typ_ \in Strategies :
          player = factory(typ_, BuiltWheel.all_outcomes)
    /\ InitCall

\* Simulator.session up to its loop: set_stake, set_rounds and an empty
\* stake_history.  An exception that left a session leaves gather as well.
SessionBegin ==
    /\ ~session.loop
    /\ raised = ""
    /\ session.n < MaxSessions
    /\ player' = set_rounds(
                    Player_set_stake(player, init_stake * table.minimum),
                    RoundsFor(player.class))
    /\ session' = [n |-> session.n + 1, loop |-> TRUE, history |-> <<>>]
    /\ Returns("set_rounds", "None")
    /\ cycles' = 0
    /\ forced' = <<>>
    /\ streak' = NoStreak
    /\ UNCHANGED <<bins, all_outcomes, bets, table, reds>>

\* One turn of the loop: playing() returned True, the table is cleared, the
\* cycle is run and the stake it left is appended to stake_history.
SessionCycle ==
    /\ session.loop
    /\ raised = ""
    /\ Player_playing(player).ret
    /\ \E r \in Game_cycle(Player_playing(player).player, bins, all_outcomes) :
          /\ player' = r.player
          /\ bets' = r.bets
          /\ trace' = r.trace
          /\ raised' = r.raised
          /\ streak' = StreakAfter(streak, player, r)
          /\ session' = IF r.raised = ""
                        THEN [session EXCEPT
                                 !.history = Append(@, r.player.stake)]
                        ELSE session
    /\ call' = "cycle"
    /\ ret' = "None"
    /\ message' = <<>>
    /\ before' = player
    /\ cycles' = cycles + 1
    /\ forced' = Forced(player, forced)
    /\ reds' = RedsBefore(call, trace, reds)
    /\ UNCHANGED <<bins, all_outcomes, table>>

\* The end of the loop: playing() returned False and session returns
\* stake_history.
SessionReturn ==
    /\ session.loop
    /\ raised = ""
    /\ ~Player_playing(player).ret
    /\ player' = Player_playing(player).player
    /\ session' = [session EXCEPT !.loop = FALSE]
    /\ Returns("session", session.history)
    /\ forced' = Forced(player, forced)
    /\ streak' = IF player.stake < table.minimum THEN NoStreak ELSE streak
    /\ UNCHANGED <<bins, all_outcomes, bets, cycles, table, reds>>

NextSession == SessionBegin \/ SessionCycle \/ SessionReturn

SpecSession == InitSession /\ [][NextSession]_vars

\* ------------------------------------------------------------ properties
\* Of Game.cycle, under Spec.  `before` is the player as the cycle found it,
\* `trace` the calls the cycle made.

\* The validation of the last cycle passed / raised InvalidBet.
Valid == \E i \in Hooks("is_valid") : trace[i].ret
Invalid == \E i \in Hooks("is_valid") : ~trace[i].ret

\* The Bin of the last cycle's spin, as the trace keeps it.
Spun == trace[CHOOSE i \in Hooks("next") : TRUE].bin

\* The calls of win or loose made for one Bet.
Calls(name, bet) == {i \in Hooks(name) : trace[i].bet = bet}

\* set_rounds(0) was called during the last cycle: by playing(), on a stake
\* below the minimum, or by PlayerCancellation.win, as it emptied the sequence.
HookSetRounds ==
    \/ before.stake < minimum
    \/ /\ player.class = "PlayerCancellation"
       /\ Hooks("win") # {}
       /\ player.sequence = <<>>

\* C1 as stated: every Game.cycle call leaves rounds_to_go one less than it
\* found it, whether the player played, sat out or had its bets refused.
CycleDecrementsByOne ==
    call = "cycle" => player.rounds_to_go = before.rounds_to_go - 1

\* C1, amended: every Game.cycle call ends with the decrement of rounds_to_go
\* by 1, which applies to the value the round's calls left: 0 when playing() or
\* a hook called set_rounds(0) during the cycle, the value before otherwise.
CycleDecrements ==
    call = "cycle" =>
        player.rounds_to_go =
            (IF HookSetRounds THEN 0 ELSE before.rounds_to_go) - 1

\* A player with rounds left and a stake below the minimum sat out: the cycle
\* left rounds_to_go at -1.
EvictedRound ==
    /\ call = "cycle"
    /\ before.stake < minimum
    /\ before.rounds_to_go > 1
    /\ Hooks("place_bets") = {}
    /\ player.rounds_to_go = -1

\* C2: in every Game.cycle call winners is called exactly once, with the Bin
\* the spin returned, after playing, place_bets, is_valid and invalid_bet and
\* before every win and loose, whether or not the player is playing.
WinnersOncePerCycle ==
    call = "cycle" =>
        /\ Cardinality(Hooks("next")) = 1
        /\ Cardinality(Hooks("winners")) = 1
        /\ \A i \in Hooks("winners") :
              /\ i - 1 \in Hooks("next")
              /\ trace[i].bin = trace[i - 1].bin
              /\ \A j \in DOMAIN trace :
                    /\ trace[j].hook \in {"playing", "place_bets", "is_valid",
                                          "invalid_bet"} => j < i
                    /\ trace[j].hook \in {"win", "loose"} => j > i

\* A SevenReds player that sat out was told of the Bin: its red_count moved.
WinnersToldSittingOut ==
    /\ call = "cycle"
    /\ Hooks("place_bets") = {}
    /\ Hooks("winners") # {}
    /\ player.class = "SevenReds"
    /\ player.red_count # before.red_count

\* C3: when is_valid raises InvalidBet during Game.cycle, the stake at the end
\* of the cycle equals the stake at its start, invalid_bet is called exactly
\* once and the table holds no bets afterwards.
InvalidBetRefunded ==
    (call = "cycle" /\ Invalid) =>
        /\ player.stake = before.stake
        /\ Cardinality(Hooks("invalid_bet")) = 1
        /\ bets = {}

\* A Martingale player's fifth wager in a row, 160, was refused and refunded.
RefusedAndRefunded ==
    /\ call = "cycle"
    /\ Invalid
    /\ before.class = "Martingale"
    /\ before.loss_count = 4
    /\ player.stake = before.stake
    /\ bets = {}

\* C4: an InvalidBet raised by the validation does not leave Game.cycle: the
\* cycle spins, calls winners and decrements rounds_to_go, and calls neither
\* win nor loose in that round.
InvalidBetContained ==
    (call = "cycle" /\ Invalid) =>
        /\ raised = ""
        /\ Hooks("next") # {}
        /\ Hooks("winners") # {}
        /\ player.rounds_to_go = before.rounds_to_go - 1
        /\ Hooks("win") = {}
        /\ Hooks("loose") = {}

\* A cycle whose validation raised returned, after the spin and the decrement.
RefusedRoundCompleted ==
    /\ call = "cycle"
    /\ raised = ""
    /\ Invalid
    /\ Hooks("invalid_bet") # {}
    /\ Hooks("winners") # {}
    /\ player.rounds_to_go = before.rounds_to_go - 1

\* C5: in a round where the player plays and the table is valid, for every bet
\* on the table exactly one of win(bet) and loose(bet) is called, exactly once:
\* win if and only if the bet's outcome is in the winning Bin.
OneHookPerBet ==
    (call = "cycle" /\ Valid) =>
        /\ \A bet \in bets :
              /\ Cardinality(Calls("win", bet))
                    + Cardinality(Calls("loose", bet)) = 1
              /\ Calls("win", bet) # {} <=> Contains(Spun, bet.outcome)
        /\ \A i \in Hooks("win") \cup Hooks("loose") : trace[i].bet \in bets

\* A bet was on the table in a valid round and its outcome was in the Bin.
BetWon ==
    /\ call = "cycle"
    /\ Valid
    /\ \E bet \in bets :
          Contains(Spun, bet.outcome) /\ Calls("win", bet) # {}

\* C6: when playing() is false at the start of Game.cycle (rounds_to_go <= 0
\* or the stake below the table minimum), place_bets is not called, the table
\* holds no bets at the end, neither win nor loose is called and the stake is
\* unchanged.
SatOutRound ==
    (call = "cycle" /\ (before.rounds_to_go <= 0 \/ before.stake < minimum)) =>
        /\ \A i \in Hooks("playing") : ~trace[i].ret
        /\ Hooks("place_bets") = {}
        /\ bets = {}
        /\ Hooks("win") = {}
        /\ Hooks("loose") = {}
        /\ player.stake = before.stake

\* A player out of rounds, its stake above the minimum, went through a cycle.
OutOfRoundsSatOut ==
    /\ call = "cycle"
    /\ before.rounds_to_go <= 0
    /\ before.stake >= minimum
    /\ Hooks("place_bets") = {}
    /\ bets = {}
    /\ player.stake = before.stake

TableIsValid ==
    [][call' = "is_valid" =>
          /\ bets' = bets
          /\ (ret' = "True") <=> (SumAmounts(bets) <= limit)
          /\ (raised' = "InvalidBet") <=> (SumAmounts(bets) > limit)
          /\ raised' \in {"", "InvalidBet"}
          /\ raised' = "InvalidBet" =>
                message' = <<SumAmounts(bets), Cardinality(bets)>>]_vars

\* Two bets that total limit + 1 were refused, the message saying so.
OneOverLimitRefused ==
    /\ call = "is_valid"
    /\ SumAmounts(bets) = limit + 1
    /\ raised = "InvalidBet"
    /\ message = <<limit + 1, 2>>

\* C24: place_bet adds the Bet to a set: a Bet equal to one on the table
\* leaves the table as it was, with one such Bet that is_valid's total counts
\* once, any other Bet adds one Bet and its amount; table() leaves no Bet.
PlaceBetIsSetAdd ==
    [][/\ call' = "place_bet" =>
              LET bet == trace'[1].bet
                  new == IF bet \in bets THEN 0 ELSE 1
              IN  /\ trace'[1].on_table = bets
                  /\ bet \in bets'
                  /\ bets \subseteq bets'
                  /\ bet \in bets => bets' = bets
                  /\ Cardinality(bets') = Cardinality(bets) + new
                  /\ SumAmounts(bets') =
                        SumAmounts(bets) + new * bet.amount_bet
       /\ call' = "table" => bets' = {}]_vars

\* A Bet of `limit` was placed a second time: one Bet, and a valid table.
DuplicatePlaced ==
    /\ call = "place_bet"
    /\ trace[1].bet \in trace[1].on_table
    /\ trace[1].bet.amount_bet = limit
    /\ bets = {trace[1].bet}
    /\ Table_is_valid(bets).ret

\* Of Player.playing, under SpecPlayer.

PlaysAgainOnceStakeRestored ==
    (/\ call = "playing"
     /\ player.class = "Player"
     /\ forced # <<>>
     /\ forced[1] > 0
     /\ before.stake >= minimum) => ret = "True"

\* Of the hooks of one strategy, under SpecStrategy.  `before` is the player
\* as the call found it, `streak` the run of wins or losses it ends.

Black == Outcome("Black", evenmoneybet)
Red == Outcome("Red", evenmoneybet)

\* The last call was the named hook of a player of the named class.
Hook(class, name) == player.class = class /\ call = name /\ raised = ""

\* C11: Martingale.place_bets puts one Bet on Black, table.minimum *
\* 2^loss_count, and pays it from the stake; loose adds 1 to loss_count and
\* win sets it to 0; so after n losses in a row loss_count is n and the wager
\* is minimum * 2^n, and after a win loss_count is 0 and the wager is minimum.
MartingaleDoubles ==
    /\ Hook("Martingale", "place_bets") =>
          /\ bets = {Bet(table.minimum * 2^(before.loss_count), Black)}
          /\ player =
                [before EXCEPT
                    !.stake = @ - table.minimum * 2^(before.loss_count)]
    /\ Hook("Martingale", "loose") =>
          player.loss_count = before.loss_count + 1
    /\ Hook("Martingale", "win") => player.loss_count = 0
    /\ player.class = "Martingale" /\ streak.hook = "loose" =>
          /\ player.loss_count = streak.n
          /\ call = "place_bets" =>
                bets = {Bet(table.minimum * 2^(streak.n), Black)}
    /\ player.class = "Martingale" /\ streak.hook = "win" =>
          /\ player.loss_count = 0
          /\ call = "place_bets" => bets = {Bet(table.minimum, Black)}

\* After three losses in a row a Martingale player wagered 80 on Black.
WageredEightyAfterThreeLosses ==
    /\ Hook("Martingale", "place_bets")
    /\ streak.hook = "loose"
    /\ streak.n = 3
    /\ bets = {Bet(80, Black)}

\* C12: invalid_bet puts the progression of the player back where its
\* constructor left it and changes no other attribute, the stake and
\* rounds_to_go included: loss_count 0 for Martingale (and for SevenReds, which
\* has the same override), the sequence 1..6 for PlayerCancellation, recent 1
\* and previous 0 for FibonacciPlayer.  The table keeps its Bets.
InvalidBetResetsProgression ==
    /\ call = "invalid_bet" /\ IsMartingale(player) =>
          /\ player = [before EXCEPT !.loss_count = 0]
          /\ player.loss_count = Martingale_init.loss_count
    /\ Hook("PlayerCancellation", "invalid_bet") =>
          /\ player = [before EXCEPT !.sequence = <<1, 2, 3, 4, 5, 6>>]
          /\ player.sequence =
                PlayerCancellation_init(all_outcomes).sequence
    /\ Hook("FibonacciPlayer", "invalid_bet") =>
          /\ player = [before EXCEPT !.recent = 1, !.previous = 0]
          /\ player.recent = FibonacciPlayer_init.recent
          /\ player.previous = FibonacciPlayer_init.previous
    /\ call = "invalid_bet" =>
          /\ player.stake = before.stake
          /\ player.rounds_to_go = before.rounds_to_go

\* invalid_bet was called on a PlayerCancellation that a loss and a win had
\* left with the sequence 2..6 and a Bet on the table.
CancellationResetAfterPlay ==
    /\ Hook("PlayerCancellation", "invalid_bet")
    /\ before.sequence = <<2, 3, 4, 5, 6>>
    /\ before.stake # 1000
    /\ bets # {}

\* The states of Player1326 in the order consecutive wins visit them, and the
\* multiple of the table minimum wagered in each.
States1326 == << "Player1326NoWins", "Player1326OneWin",
                 "Player1326TwoWins", "Player1326ThreeWins" >>
Multiples1326 == << 1, 3, 2, 6 >>

\* The position of a state in States1326.
Position1326(state) == CHOOSE i \in 1..4 : States1326[i] = state

\* C13: a Player1326 starts in NoWins; a win moves it from each state to the
\* next of NoWins, OneWin, TwoWins, ThreeWins and from ThreeWins back to
\* NoWins; place_bets puts one Bet on Black of table.minimum * 1, 3, 2, 6 in
\* these states; so after n wins in a row that began in NoWins the wager is
\* the minimum times 1, 3, 2, 6, 1, ... for n = 0, 1, 2, 3, 4, ...
Player1326WinsCycle ==
    /\ player.class = "Player1326" =>
          player.state \in {States1326[i] : i \in 1..4}
    /\ player.class = "Player1326" /\ call = "__init__" =>
          player.state = "Player1326NoWins"
    /\ Hook("Player1326", "win") =>
          player.state = States1326[(Position1326(before.state) % 4) + 1]
    /\ Hook("Player1326", "place_bets") =>
          /\ bets = {Bet(table.minimum
                            * Multiples1326[Position1326(before.state)], Black)}
          /\ player.state = before.state
    /\ /\ player.class = "Player1326"
       /\ streak.hook = "win"
       /\ streak.first.state = "Player1326NoWins"
       => /\ player.state = States1326[(streak.n % 4) + 1]
          /\ call = "place_bets" =>
                bets = {Bet(table.minimum * Multiples1326[(streak.n % 4) + 1],
                            Black)}

\* After four wins in a row from NoWins, on wagers of 10, 30, 20 and 60 that
\* brought the stake from 1000 to 1120, the fifth wager is 10 again.
FifthWagerIsMinimum ==
    /\ Hook("Player1326", "place_bets")
    /\ streak.hook = "win"
    /\ streak.n = 4
    /\ streak.first.state = "Player1326NoWins"
    /\ before.stake = 1120
    /\ bets = {Bet(10, Black)}

\* C14: loose moves a Player1326 from each of its four states to NoWins and
\* changes nothing else, so the wager that follows a loss is table.minimum.
Player1326LossResets ==
    /\ Hook("Player1326", "loose") =>
          /\ before.state \in {States1326[i] : i \in 1..4}
          /\ player = [before EXCEPT !.state = "Player1326NoWins"]
    /\ player.class = "Player1326" /\ streak.hook = "loose" =>
          /\ player.state = "Player1326NoWins"
          /\ call = "place_bets" => bets = {Bet(table.minimum, Black)}

\* A Player1326 lost the wager of 60 it made in ThreeWins and wagered 10 next.
MinimumAfterLossInThreeWins ==
    /\ Hook("Player1326", "place_bets")
    /\ streak.hook = "loose"
    /\ streak.first.state = "Player1326ThreeWins"
    /\ bets = {Bet(10, Black)}

\* The Bet handed to the win or loose that was the last call.
Popped == trace[1].bet

\* C15: on a sequence that is not empty PlayerCancellation.place_bets puts one
\* Bet on Red, of the first plus the last element, and pays it from the stake;
\* win removes the first and the last element, the only element of a sequence
\* of one; loose appends the amount of the lost Bet and removes nothing.  On
\* 1..6 a win leaves 2..5 and the loss of the 7 wagered leaves 1..7.
CancellationSequence ==
    /\ Hook("PlayerCancellation", "place_bets") =>
          /\ before.sequence # <<>>
          /\ bets = {Bet(before.sequence[1]
                            + before.sequence[Len(before.sequence)], Red)}
          /\ player =
                [before EXCEPT
                    !.stake = @ - (before.sequence[1]
                                   + before.sequence[Len(before.sequence)])]
    /\ Hook("PlayerCancellation", "win") =>
          /\ before.sequence # <<>>
          /\ Len(player.sequence) =
                IF Len(before.sequence) = 1 THEN 0
                ELSE Len(before.sequence) - 2
          /\ \A i \in DOMAIN player.sequence :
                player.sequence[i] = before.sequence[i + 1]
          /\ before.sequence = <<1, 2, 3, 4, 5, 6>> =>
                player.sequence = <<2, 3, 4, 5>>
    /\ Hook("PlayerCancellation", "loose") =>
          /\ player.sequence = before.sequence \o << Popped.amount_bet >>
          /\ before.sequence = <<1, 2, 3, 4, 5, 6>> /\ Popped = Bet(7, Red) =>
                player.sequence = <<1, 2, 3, 4, 5, 6, 7>>

\* A win on the sequence of the one element 4, which a loss and three wins
\* left of 1..6, emptied it.
WinOnOneElement ==
    /\ Hook("PlayerCancellation", "win")
    /\ before.sequence = << 4 >>
    /\ Popped = Bet(8, Red)
    /\ player.sequence = <<>>

\* The last call was a win that left the sequence of a PlayerCancellation
\* empty.
Emptied == Hook("PlayerCancellation", "win") /\ player.sequence = <<>>

\* C16: a PlayerCancellation.win that leaves the sequence empty leaves
\* rounds_to_go at 0, and every playing() after it returns False; a win that
\* leaves elements in the sequence leaves rounds_to_go as it was.
EmptySequenceEndsSession ==
    /\ [](Emptied => player.rounds_to_go = 0)
    /\ [](Hook("PlayerCancellation", "win") /\ player.sequence # <<>> =>
             player.rounds_to_go = before.rounds_to_go)
    /\ [](Emptied => [](call = "playing" => ret = "False"))

\* playing() returned False to a PlayerCancellation with an empty sequence and
\* a stake above the table minimum.
OutOfSequenceStopped ==
    /\ player.class = "PlayerCancellation"
    /\ call = "playing"
    /\ ret = "False"
    /\ player.sequence = <<>>
    /\ player.rounds_to_go = 0
    /\ player.stake >= table.minimum

\* `previous` after the first to the tenth loss in a row, when no loss resets.
FibonacciLosses == << 1, 1, 2, 3, 5, 8, 13, 21, 34, 55 >>

\* The last call ended a run of at most ten losses of a FibonacciPlayer that
\* began at recent = 1, previous = 0.
LossesFromStart ==
    /\ player.class = "FibonacciPlayer"
    /\ streak.hook = "loose"
    /\ streak.n <= 10
    /\ streak.first.recent = 1
    /\ streak.first.previous = 0

FibonacciLossesAtLimit100 ==
    LossesFromStart /\ table = Table_init(10, 100) =>
        player.previous = FibonacciLosses[streak.n]

\* C19: a SevenReds starts with red_count = 7.  place_bets, called at a clear
\* table, puts a Bet on it exactly when it finds red_count = 0: one Bet on
\* Black of table.minimum * 2^loss_count, paid from the stake, and red_count
\* back at 7; on any other red_count it leaves the table clear and the player,
\* its stake and red_count included, as it was.
SevenRedsBetsAtZero ==
    /\ player.class = "SevenReds" /\ call = "__init__" => player.red_count = 7
    /\ Hook("SevenReds", "place_bets") =>
          /\ bets # {} <=> before.red_count = 0
          /\ before.red_count = 0 =>
                /\ bets = {Bet(table.minimum * 2^(before.loss_count), Black)}
                /\ player =
                      [before EXCEPT
                          !.stake = @ - table.minimum * 2^(before.loss_count),
                          !.red_count = 7]
          /\ before.red_count # 0 =>
                /\ bets = {}
                /\ player = before

\* A SevenReds that had lost its first wager saw seven reds again and wagered
\* 20 on Black.
SecondWagerAfterSevenReds ==
    /\ Hook("SevenReds", "place_bets")
    /\ before.red_count = 0
    /\ before.loss_count = 1
    /\ bets = {Bet(20, Black)}
    /\ player.red_count = 7

\* The Bin announced by the winners call that was the last call.
Announced == bins[trace[1].index]

\* red_count after a Bin was announced to a SevenReds with red_count n.
CountAfter(n, bin_) ==
    IF Black \in bin_ THEN 7
    ELSE IF Red \in bin_ THEN n - 1
    ELSE n

\* C20: SevenReds.winners takes 1 from red_count when the Bin holds Red, sets
\* it to 7 when the Bin holds Black and leaves it when the Bin holds neither,
\* and changes nothing else of the player; this for each of the 38 Bins, of
\* which 0 and 00 alone hold neither and none holds both.
SevenRedsCountsReds ==
    /\ Hook("SevenReds", "winners") =>
          player = [before EXCEPT
                       !.red_count = CountAfter(before.red_count, Announced)]
    /\ player.class = "SevenReds" =>
          \A b \in BinIndex :
              SevenReds_winners(player, bins[b]) =
                  [player EXCEPT
                      !.red_count = CountAfter(player.red_count, bins[b])]
    /\ \A b \in BinIndex :
          /\ ~(Red \in bins[b] /\ Black \in bins[b])
          /\ (Red \notin bins[b] /\ Black \notin bins[b])
                <=> b \in {0, NumBins - 1}

\* After four reds, 00 was announced to a SevenReds and left red_count at 3.
DoubleZeroLeavesCount ==
    /\ Hook("SevenReds", "winners")
    /\ trace[1].index = NumBins - 1
    /\ Announced \cap {Red, Black} = {}
    /\ before.red_count = 3
    /\ player.red_count = 3

\* Of Game.cycle again, under Spec.

\* The player put a Bet on the table in the round of the last call.
PlacedBet ==
    /\ call = "cycle"
    /\ \E i \in Hooks("place_bets") : trace[i].stake < before.stake

\* C21 as stated: whenever a SevenReds places a Bet in a round, the Bins
\* announced in the seven rounds right before it all held Red.
SevenRedsInARow ==
    player.class = "SevenReds" /\ PlacedBet => reds = 7

\* Of Simulator.session, under SpecSession.

\* The last call was the return of a session.
Returned == call = "session" /\ ~session.loop /\ session.n > 0

\* C22 as stated: every session ends, of every strategy and on every sequence
\* of spins: no exception leaves its loop, the loop makes at least one and at
\* most as many turns as the session has rounds, and the stake_history
\* returned has one entry for each cycle run.
SessionTerminates ==
    /\ session.n > 0 => raised = ""
    /\ session.loop => cycles <= RoundsFor(player.class)
    /\ Returned =>
          /\ 1 <= Len(ret)
          /\ Len(ret) <= RoundsFor(player.class)
          /\ Len(ret) = cycles

\* A session is at its start: set_stake and set_rounds are done, the loop is
\* not entered.
SessionStart == session.loop /\ call = "set_rounds"

\* C23 as stated: at the start of every session the player is as its
\* constructor leaves it, with the stake and the rounds of the session: no
\* attribute carries a value over from the session before.
SessionsIndependent ==
    SessionStart =>
        player =
            [factory(player.class, all_outcomes) EXCEPT
                !.stake = init_stake * table.minimum,
                !.rounds_to_go = RoundsFor(player.class)]

\* C35 as stated: over the sessions of one Simulator with a
\* PlayerCancellation, place_bets is never called on an empty sequence and no
\* cycle ends in an IndexError.  The session after the one that cancelled the
\* whole sequence begins with the sequence still empty (C23).
NeverBetsOnEmptySequence ==
    (call = "cycle" /\ player.class = "PlayerCancellation") =>
        /\ Hooks("place_bets") # {} => before.sequence # <<>>
        /\ raised # "IndexError"

\* C36 as stated: through the rounds of Game.cycle the stake of a player is
\* never negative, neither once place_bets has taken the wager from it nor at
\* the end of the round.  playing() compares the stake with the table minimum,
\* not with the wager.
StakeNeverNegative ==
    call = "cycle" =>
        /\ \A i \in Hooks("place_bets") : trace[i].stake >= 0
        /\ player.stake >= 0

\* C36, amended: a player wagers only from a stake of at least the table
\* minimum, whatever the wager is, and a round takes at most the table limit
\* from it: place_bets is called only when the stake is at least the minimum
\* and rounds are left, a round without place_bets leaves the stake as it was,
\* and every round leaves at least the stake before less the limit, so that
\* the stake never goes below minimum - limit.
WagersFromMinimumStake ==
    /\ player.stake >= minimum - limit
    /\ call = "cycle" =>
          /\ Hooks("place_bets") # {} =>
                before.stake >= minimum /\ before.rounds_to_go > 0
          /\ Hooks("place_bets") = {} => player.stake = before.stake
          /\ player.stake >= before.stake - limit

\* A player that held the table minimum wagered more and lost: the round
\* left it in debt.
WageredMoreThanHeld ==
    /\ call = "cycle"
    /\ before.stake = minimum
    /\ Hooks("place_bets") # {}
    /\ \A i \in Hooks("place_bets") : trace[i].stake < 0
    /\ player.stake < 0

\* C37: whenever Game.cycle calls win or loose, the bet is on the table and the
\* amounts on the table sum to table.limit at most; a Martingale player never
\* has a bet above 80 resolved, and between rounds its loss_count is within
\* 0..4.
ResolvedWithinLimit ==
    /\ player.class \in {"Martingale", "SevenReds"} =>
          player.loss_count \in 0..4
    /\ call = "cycle" =>
          \A i \in Hooks("win") \cup Hooks("loose") :
              /\ trace[i].bet \in bets
              /\ SumAmounts(bets) <= limit
              /\ trace[i].bet.amount_bet <= limit
              /\ player.class = "Martingale" =>
                    trace[i].bet.amount_bet <= 80

\* A Martingale player lost its fourth wager in a row, 80.
MartingaleLostEighty ==
    /\ call = "cycle"
    /\ player.class = "Martingale"
    /\ player.loss_count = 4
    /\ \E i \in Hooks("loose") : trace[i].bet.amount_bet = 80

\* C38 as stated: a FibonacciPlayer in Game.cycle never places more than
\* table.limit, (recent + previous) * 10 is at most table.limit whenever a
\* round begins, and its wager never raises InvalidBet.
FibonacciWithinLimit ==
    player.class = "FibonacciPlayer" =>
        /\ (player.recent + player.previous) * 10 <= limit
        /\ call = "cycle" =>
              /\ \A i \in Hooks("is_valid") : trace[i].ret
              /\ Hooks("invalid_bet") = {}

\* C39 as stated: once a Simulator session was begun, rounds_to_go is never
\* negative, whatever the strategy.
RoundsNeverNegative ==
    session.n > 0 => player.rounds_to_go >= 0

\* C39, amended: once a session was begun rounds_to_go is never below -1, and
\* it is -1 only for a PlayerCancellation whose sequence a win has emptied: win
\* set rounds_to_go to 0 and the cycle took 1 from it.
RoundsNegativeOnlyCancelled ==
    session.n > 0 =>
        /\ player.rounds_to_go >= -1
        /\ player.rounds_to_go < 0 =>
              /\ player.class = "PlayerCancellation"
              /\ player.sequence = <<>>
              /\ call = "cycle" => Hooks("win") # {} /\ before.rounds_to_go > 0

\* The win that emptied the sequence ended a session's round at -1.
CancelledBelowZero ==
    /\ session.loop
    /\ call = "cycle"
    /\ player.class = "PlayerCancellation"
    /\ before.sequence # <<>>
    /\ player.sequence = <<>>
    /\ player.rounds_to_go = -1

\* The sum of the numbers of a sequence.
RECURSIVE SumSequence(_)
SumSequence(s) == IF s = <<>> THEN 0 ELSE Head(s) + SumSequence(Tail(s))

\* C40: a PlayerCancellation in the first session of a Simulator starts from the
\* sequence 1..6 and the stake init_stake * minimum.  While its sequence is not
\* empty, what it has won so far and the sum of the sequence make 21; when a
\* win empties the sequence, it has won 21 at least.
CancellationLedger ==
    (player.class = "PlayerCancellation" /\ session.n = 1) =>
        /\ player.sequence # <<>> =>
              (player.stake - init_stake * minimum)
                  + SumSequence(player.sequence) = 21
        /\ (call = "cycle" /\ Hooks("win") # {} /\ player.sequence = <<>>) =>
              player.stake >= init_stake * minimum + 21

\* A win on the one number left, 4, wagered twice over, emptied the sequence:
\* the stake is 25 above the stake at the start.
LastNumberCancelled ==
    /\ session.n = 1
    /\ call = "cycle"
    /\ player.class = "PlayerCancellation"
    /\ before.sequence = <<4>>
    /\ Hooks("win") # {}
    /\ player.sequence = <<>>
    /\ player.stake = init_stake * minimum + 25

\* Of Bet and Outcome, under SpecBet.

\* C25 as stated: two Bets are equal if and only if their amounts and the
\* names of their outcomes are the same, whatever the odds of the outcomes, and
\* equal Bets have equal hashes.  Bet.__eq__ compares the reprs, odds included.
BetsEqualByAmountAndName ==
    call = "__eq__" =>
        LET bet == trace[1].bet
            other == trace[1].other
        IN  /\ (ret = "True") <=>
                  /\ bet.amount_bet = other.amount_bet
                  /\ bet.outcome.name = other.outcome.name
            /\ ret = "True" => message[1] = message[2]

WheelInvariant ==
    /\ [](/\ DOMAIN bins = BinIndex
          /\ Cardinality(DOMAIN bins) = 38
          /\ \A i \in DOMAIN bins :
                \A outcome \in bins[i] : Contains(all_outcomes, outcome))
    /\ [][/\ \A i \in DOMAIN bins : bins[i] \subseteq bins'[i]
          /\ all_outcomes \subseteq all_outcomes'
          /\ (/\ call' = "add"
              /\ raised' = ""
              /\ Contains(bins[trace'[1].bin_], trace'[1].outcome)) =>
                 bins' = bins /\ all_outcomes' = all_outcomes]_vars

\* An Outcome that bin 0 holds was added to it with other odds, after Green:
\* the bin holds the one it held and Green, the catalog the one more.
AddedAgain ==
    /\ call = "add"
    /\ raised = ""
    /\ cycles = 2
    /\ trace[1].bin_ = 0
    /\ trace[1].outcome = Outcome("00-0-1-2-3", evenmoneybet)
    /\ Outcome("00-0-1-2-3", fivebet) \in bins[0]
    /\ Outcome("00-0-1-2-3", evenmoneybet) \notin bins[0]
    /\ Outcome("Green", straightbet) \in bins[0]
    /\ Outcome("Green", straightbet) \in all_outcomes
    /\ Cardinality(bins[0]) = 3

\* C28: add fails exactly when the bin index is outside [0, 38), and leaves
\* the bins and all_outcomes as they were when it fails.
AddOutOfRangeFails ==
    [][call' = "add" =>
          /\ (raised' # "") <=>
                ~(0 <= trace'[1].bin_ /\ trace'[1].bin_ < 38)
          /\ raised' # "" => bins' = bins /\ all_outcomes' = all_outcomes]_vars

\* After Green was added to the last bin, an add to bin 38 failed.
AddPastTheEndFailed ==
    /\ call = "add"
    /\ raised = "AssertionError"
    /\ trace[1].bin_ = NumBins
    /\ cycles = 1
    /\ Outcome("Green", straightbet) \in bins[NumBins - 1]

\* C29 as stated: get returns the bin at the index for every index in [0, 38)
\* and fails for every other index, the negative ones too.  The bins are a
\* tuple, which a negative index down to -38 reads from the end.
GetOutOfRangeFails ==
    call = "get" =>
        IF 0 <= trace[1].bin_ /\ trace[1].bin_ < 38
        THEN raised = "" /\ ret = bins[trace[1].bin_]
        ELSE raised # ""

\* Of Wheel.get_outcome, under SpecGetOutcome.

\* C30: on the built wheel get_outcome returns, for the name of a catalog
\* Outcome in any letter case, that Outcome, and fails for a name of no
\* Outcome; no two names of the catalog differ in letter case only.
GetOutcomeAnyCase ==
    /\ Cardinality({Recase(oc.name, Lower, Upper) : oc \in all_outcomes}) =
          Cardinality(all_outcomes)
    /\ call = "get_outcome" =>
          IF trace[1].of = {}
          THEN raised = "ValueError"
          ELSE raised = "" /\ trace[1].of = {ret}

\* 'RED' was looked up and the Outcome Red with its odds of 1 returned.
RedInCapitalsFound ==
    /\ call = "get_outcome"
    /\ trace[1].name = "RED"
    /\ raised = ""
    /\ ret = Outcome("Red", evenmoneybet)

\* Of BinBuilder, under SpecBuild.

\* Wheel.__init__ returned.
Constructed == call = "Wheel" /\ raised = ""

\* The numbers ns written as "1, 2, 3".
RECURSIVE Numbers(_)
Numbers(ns) ==
    IF Len(ns) = 1 THEN ToString(ns[1])
    ELSE ToString(ns[1]) \o ", " \o Numbers(Tail(ns))

\* One bet of the layout: its kind, its Outcome and the bins it covers.
Covering(kind, name, odds, ns) ==
    [kind |-> kind, outcome |-> Outcome(name, odds), bins |-> ns]

\* The bet on the numbers ns, named after them.
Numbered(kind, odds, ns) ==
    Covering(kind, Numbers(ns) \o " " \o kind, odds,
             {ns[i] : i \in DOMAIN ns})

\* The red numbers.
RedNumbers == {1, 3, 5, 7, 9, 12, 14, 16, 18, 19, 21, 23, 25, 27, 30, 32, 34, 36}

\* The bets of American roulette on the layout of twelve rows of three
\* numbers, 1 to 36, with 0 in bin 0 and 00 in bin 37.
Layout ==
    {Covering("Straight", "Straight " \o ToString(n), 35, {n}) : n \in 0..36}
    \cup {Covering("Straight", "Straight 00", 35, {37})}
    \cup {Covering("Five", "00-0-1-2-3", 6, {37, 0, 1, 2, 3})}
    \cup {Numbered("Split", 17, <<n, n + 1>>) : n \in {k \in 1..35 : k % 3 # 0}}
    \cup {Numbered("Split", 17, <<n, n + 3>>) : n \in 1..33}
    \cup {Numbered("Street", 11, <<n, n + 1, n + 2>>) :
             n \in {k \in 1..34 : k % 3 = 1}}
    \cup {Numbered("Corner", 8, <<n, n + 1, n + 3, n + 4>>) :
             n \in {k \in 1..32 : k % 3 # 0}}
    \cup {Numbered("Line", 5, <<n, n + 1, n + 2, n + 3, n + 4, n + 5>>) :
             n \in {k \in 1..31 : k % 3 = 1}}
    \cup {Covering("Dozen", "Dozen " \o ToString(d), 2,
                    (12 * (d - 1) + 1)..(12 * d)) : d \in 1..3}
    \cup {Covering("Column", "Column " \o ToString(c), 2,
                    {n \in 1..36 : n % 3 = c % 3}) : c \in 1..3}
    \cup {Covering("Even-money", "Low", 1, 1..18),
          Covering("Even-money", "High", 1, 19..36),
          Covering("Even-money", "Even", 1, {n \in 1..36 : n % 2 = 0}),
          Covering("Even-money", "Odd", 1, {n \in 1..36 : n % 2 = 1}),
          Covering("Even-money", "Red", 1, RedNumbers),
          Covering("Even-money", "Black", 1, (1..36) \ RedNumbers)}

\* The Outcomes of one kind in a catalog.
OfKind(catalog, kind) ==
    {outcome \in catalog :
        \E bet \in Layout : bet.kind = kind /\ bet.outcome = outcome}

\* C31: once the wheel is constructed all_outcomes holds exactly the 153
\* Outcomes of the layout, of 153 names: 38 straight, 1 five-number, 57 split,
\* 12 street, 22 corner, 11 line, 3 dozen, 3 column and 6 even-money, with the
\* odds 35, 6, 17, 11, 8, 5, 2, 2 and 1 of their kinds.
CatalogOf153 ==
    Constructed =>
        /\ all_outcomes = {bet.outcome : bet \in Layout}
        /\ Cardinality(all_outcomes) = 153
        /\ Cardinality({outcome.name : outcome \in all_outcomes}) = 153
        /\ Cardinality(OfKind(all_outcomes, "Straight")) = 38
        /\ Cardinality(OfKind(all_outcomes, "Five")) = 1
        /\ Cardinality(OfKind(all_outcomes, "Split")) = 57
        /\ Cardinality(OfKind(all_outcomes, "Street")) = 12
        /\ Cardinality(OfKind(all_outcomes, "Corner")) = 22
        /\ Cardinality(OfKind(all_outcomes, "Line")) = 11
        /\ Cardinality(OfKind(all_outcomes, "Dozen")) = 3
        /\ Cardinality(OfKind(all_outcomes, "Column")) = 3
        /\ Cardinality(OfKind(all_outcomes, "Even-money")) = 6
        /\ \A outcome \in OfKind(all_outcomes, "Straight") : outcome.odds = 35
        /\ \A outcome \in OfKind(all_outcomes, "Five") : outcome.odds = 6
        /\ \A outcome \in OfKind(all_outcomes, "Split") : outcome.odds = 17
        /\ \A outcome \in OfKind(all_outcomes, "Street") : outcome.odds = 11
        /\ \A outcome \in OfKind(all_outcomes, "Corner") : outcome.odds = 8
        /\ \A outcome \in OfKind(all_outcomes, "Line") : outcome.odds = 5
        /\ \A outcome \in OfKind(all_outcomes, "Dozen") : outcome.odds = 2
        /\ \A outcome \in OfKind(all_outcomes, "Column") : outcome.odds = 2
        /\ \A outcome \in OfKind(all_outcomes, "Even-money") : outcome.odds = 1

\* The wheel was constructed by 527 calls of wheel.add, with 153 Outcomes.
WheelConstructed ==
    /\ Constructed
    /\ cycles = 527
    /\ Cardinality(all_outcomes) = 153

\* C32: once the wheel is constructed bin 0 holds Straight 0 and the
\* five-number bet and nothing else, bin 37 Straight 00 and the five-number
\* bet and nothing else: no Outcome of another kind is in either.
ZeroBinsHoldTwo ==
    Constructed =>
        /\ bins[0] = {Outcome("Straight 0", 35), Outcome("00-0-1-2-3", 6)}
        /\ bins[37] = {Outcome("Straight 00", 35), Outcome("00-0-1-2-3", 6)}
        /\ \A i \in {0, 37} :
              /\ Cardinality(bins[i]) = 2
              /\ \A outcome \in bins[i] :
                    outcome \in OfKind(all_outcomes, "Straight")
                                \cup OfKind(all_outcomes, "Five")

\* The wheel was constructed and the five-number bet is in both zero bins.
FiveInBothZeroBins ==
    /\ Constructed
    /\ Outcome("00-0-1-2-3", 6) \in bins[0] \cap bins[37]
    /\ Cardinality(bins[0]) = 2
    /\ Cardinality(bins[37]) = 2

\* The names of the even-money Outcomes in a bin.
EvenMoney(bin) ==
    {outcome.name : outcome \in bin} \cap
        {"Red", "Black", "Even", "Odd", "Low", "High"}

\* C33: once the wheel is constructed each bin 1..36 holds one of Red and
\* Black, one of Even and Odd and one of Low and High: Red if and only if the
\* number is a red number, Low if and only if it is in 1..18, Even if and only
\* if it is even; bins 0 and 37 hold none of the six.
EvenMoneyPerBin ==
    Constructed =>
        /\ \A n \in 1..36 :
              EvenMoney(bins[n]) =
                  {IF n \in RedNumbers THEN "Red" ELSE "Black",
                   IF n % 2 = 0 THEN "Even" ELSE "Odd",
                   IF n <= 18 THEN "Low" ELSE "High"}
        /\ EvenMoney(bins[0]) = {}
        /\ EvenMoney(bins[37]) = {}

\* The wheel was constructed: bin 12 is red, even and low, bin 11 black, odd
\* and low.
TwelveIsRed ==
    /\ Constructed
    /\ EvenMoney(bins[12]) = {"Red", "Even", "Low"}
    /\ EvenMoney(bins[11]) = {"Black", "Odd", "Low"}

\* The bins that hold an Outcome.
BinsOf(outcome) == {i \in DOMAIN bins : outcome \in bins[i]}

\* The number of bins a bet of each kind covers.
BinsOfKind(kind) ==
    CASE kind = "Straight" -> 1
      [] kind = "Split" -> 2
      [] kind = "Street" -> 3
      [] kind = "Corner" -> 4
      [] kind = "Five" -> 5
      [] kind = "Line" -> 6
      [] kind = "Dozen" -> 12
      [] kind = "Column" -> 12
      [] kind = "Even-money" -> 18

\* C34: once the wheel is constructed every Outcome of the catalog is in the
\* bins its bet covers on the layout and in no other, and every bin holds
\* Outcomes of the catalog only: a straight bet in 1 bin, a split in 2, a
\* street in 3, a corner in 4, the five-number bet in 5, a line in 6, a dozen
\* and a column in 12, an even-money bet in 18.
EveryOutcomeInItsBins ==
    Constructed =>
        /\ \A outcome \in all_outcomes :
              \E bet \in Layout :
                  /\ bet.outcome = outcome
                  /\ BinsOf(outcome) = bet.bins
                  /\ Cardinality(BinsOf(outcome)) = BinsOfKind(bet.kind)
        /\ \A i \in DOMAIN bins : bins[i] \subseteq all_outcomes

\* The wheel was constructed: the split of 3 and 6 is in bins 3 and 6 alone,
\* and bin 3 holds no split of 3 and 4.
SplitThreeSix ==
    /\ Constructed
    /\ BinsOf(Outcome("3, 6 Split", 17)) = {3, 6}
    /\ ~\E outcome \in bins[3] : outcome.name = "3, 4 Split"

====
